---- MODULE Spec2Model ----
(***************************************************************************)
(* Successor-feature loss core of neurorl: make_episode_mask,             *)
(* episode_mean, SFTDError, TaskWeightedSFLossFn and                      *)
(* MtrlDynaUsfaLossFn.error / ontask_loss.                                 *)
(*                                                                         *)
(* Arrays are sequences (axis 0 outermost, 1-based in TLA+, so python     *)
(* index i is position i+1).  Float values are modelled as exact          *)
(* rationals <<numerator, denominator>> in lowest terms.                  *)
(***************************************************************************)
EXTENDS Integers, Sequences, FiniteSets, TLC

VARIABLES
  m_pc,             \* make_episode_mask harness: "ready" | "done"
  m_discount,       \* data.discount given to make_episode_mask, [T,B]
  m_include_final,  \* the include_final argument of the last call
  m_mask,           \* the array the last call returned
  w_pc,             \* TaskWeightedSFLossFn harness: "ready" | "done" | "raised"
  w_self,           \* the dataclass fields weight_type, combination, sum_cumulants
  w_td_error,       \* td_error argument, [C]
  w_task_w,         \* task_w argument, [C]
  w_out,            \* (task_weighted_loss, unweighted_loss) of the last call
  w_exc,            \* the exception the last call raised
  e_pc,             \* MtrlDynaUsfaLossFn harness: "ready" | "returned" | "raised"
  e_self,           \* the fields of the MtrlDynaUsfaLossFn object
  e_data,           \* the batch: data, online_preds, target_preds
  e_nets,           \* what the networks make the Dyna and model losses compute
  e_calls,          \* the sub-losses error() has invoked
  e_td_fn,          \* the SFTDError object ontask_loss has built
  e_out,            \* (td_error, loss, metrics) returned by error()
  e_direct,         \* what a direct call of ontask_loss returned
  e_alt,            \* error() on the batch with one entry changed
  e_exc,            \* the exception error() raised
  t_pc,             \* SFTDError harness: "ready" | "done" | "raised"
  t_self,           \* the dataclass fields bootstrap_n, loss_fn
  t_args,           \* the arguments of __call__ for one batch element
  t_out,            \* the TD errors [T,C] the last call returned
  t_exc,            \* the exception the last call raised
  k_pc,             \* model_loss harness: "ready" | "unrolled" | "raised"
  k_self,           \* the field simulation_steps of the loss object
  k_state,          \* online_preds.state of one batch element, [T]
  k_start,          \* start_states, the states the model is unrolled from
  k_exc,            \* the exception model_loss raised
  d_pc,             \* Dyna sampling harness: "ready" | "sampled" | "raised"
  d_self,           \* the fields n_tasks_dyna, n_actions_dyna
  d_q_values,       \* predictions.q_values for each train task, [N,A]
  d_sampled_tasks,  \* the indices of the sampled tasks, [M]
  d_sampled_actions, \* sampled_actions of sf_dyna_td for each sampled task
  c_pc,             \* compute_losses harness: "ready" | "done"
  c_self,           \* the fields weighted_coeff, unweighted_coeff
  c_args,           \* predicted_sf_, sf_target_, sf_mask_, task_weights_
  c_out,            \* sf_loss of the start timestep
  c_alt,            \* sf_loss with one entry of the arguments changed
  h_self,           \* HasKeyFilter object: the field _key
  h_calls,          \* the write calls made so far, each with what it did
  h_to,             \* what the wrapped logger's write received, in order
  g_self,           \* make_logger's result: the loggers and the WandbLogger fields
  g_calls,          \* the write calls made on the logger so far
  g_wandb,          \* what wandb.log received, in order
  a_pc,             \* get_actor_core harness: "ready" | "built" | "raised" | "running" | "init_raised"
  a_config,         \* config.num_epsilons, config.evaluation_epsilon
  a_evaluation,     \* the evaluation argument
  a_state,          \* the R2D2ActorState the last init or select_action returned
  a_first,          \* the R2D2ActorState init returned
  a_calls,          \* the select_action calls so far: state passed, state applied
  a_extras,         \* what the last get_extras returned
  a_exc,            \* the exception get_actor_core or init raised
  u_pc,             \* UsfaLossFn.error harness: "ready" | "done" | "raised"
  u_data,           \* online_sf, data.action, data.discount of one batch element
  u_cumulants,      \* what extract_cumulants returned, [T/T+1]
  u_args,           \* the arrays sf_loss hands to the TD computation
  u_exc,            \* the exception error() raised
  b_pc,             \* discount harness: "ready" | "done"
  b_self,           \* the field discount of the loss object
  b_discount,       \* data.discount of one batch element, [T]
  b_steps,          \* the inputs of the Dyna TD error at each step
  b_out,            \* the discounts each sub-loss used and the Dyna TD errors
  p_pc,             \* PRNG key harness: "ready" | "done"
  p_self,           \* the fields of the loss object that decide the draws
  p_shape,          \* T and B of data.discount
  p_out,            \* the keys handed to the sub-losses and the draws made
  q_self,           \* QObserver harness: the observer's period, idx, logging, evaluator
  q_run,            \* whether wandb.run is not None
  q_cfg,            \* the fields of mental_blocks_cfg
  q_last,           \* the last pass through the curriculum logic
  q_adjusts,        \* number of passes that wrote mental_blocks_cfg back
  q_exc             \* the exception get_metrics raised

mvars == <<m_pc, m_discount, m_include_final, m_mask>>
wvars == <<w_pc, w_self, w_td_error, w_task_w, w_out, w_exc>>
evars == <<e_pc, e_self, e_data, e_nets, e_calls, e_td_fn, e_out, e_direct,
           e_alt, e_exc>>
tvars == <<t_pc, t_self, t_args, t_out, t_exc>>
kvars == <<k_pc, k_self, k_state, k_start, k_exc>>
dvars == <<d_pc, d_self, d_q_values, d_sampled_tasks, d_sampled_actions>>
cvars == <<c_pc, c_self, c_args, c_out, c_alt>>
hvars == <<h_self, h_calls, h_to>>
gvars == <<g_self, g_calls, g_wandb>>
avars == <<a_pc, a_config, a_evaluation, a_state, a_first, a_calls, a_extras, a_exc>>
uvars == <<u_pc, u_data, u_cumulants, u_args, u_exc>>
bvars == <<b_pc, b_self, b_discount, b_steps, b_out>>
pvars == <<p_pc, p_self, p_shape, p_out>>
qvars == <<q_self, q_run, q_cfg, q_last, q_adjusts, q_exc>>
\* the harnesses of the logger, the actor and the curriculum
yvars == <<gvars, avars, uvars, bvars, pvars, qvars>>
\* the harnesses of the loss functions and of the key filter
zvars == <<mvars, wvars, evars, tvars, kvars, dvars, cvars, hvars>>
\* the harnesses after the first three
xvars == <<tvars, kvars, dvars, cvars, hvars, yvars>>
vars == <<m_pc, m_discount, m_include_final, m_mask,
          w_pc, w_self, w_td_error, w_task_w, w_out, w_exc,
          e_pc, e_self, e_data, e_nets, e_calls, e_td_fn, e_out, e_direct,
          e_alt, e_exc,
          t_pc, t_self, t_args, t_out, t_exc,
          k_pc, k_self, k_state, k_start, k_exc,
          d_pc, d_self, d_q_values, d_sampled_tasks, d_sampled_actions,
          c_pc, c_self, c_args, c_out, c_alt,
          h_self, h_calls, h_to,
          g_self, g_calls, g_wandb,
          a_pc, a_config, a_evaluation, a_state, a_first, a_calls, a_extras, a_exc,
          u_pc, u_data, u_cumulants, u_args, u_exc,
          b_pc, b_self, b_discount, b_steps, b_out,
          p_pc, p_self, p_shape, p_out,
          q_self, q_run, q_cfg, q_last, q_adjusts, q_exc>>

(***************************************************************************)
(* Bounds of the model.                                                    *)
(***************************************************************************)
MaxMaskT == 5
MaxMaskB == 2
MaxC == 2
MaxT == 3
MaxB == 2

(***************************************************************************)
(* Exact rational arithmetic standing for float arithmetic.               *)
(***************************************************************************)
AbsInt(i) == IF i < 0 THEN -i ELSE i

RECURSIVE GCD(_, _)
GCD(a, b) == IF b = 0 THEN a ELSE GCD(b, a % b)

Rat(n, d) ==
  LET s == IF d < 0 THEN -1 ELSE 1
      g == GCD(AbsInt(n), AbsInt(d))
  IN  IF n = 0 THEN <<0, 1>> ELSE <<(s * n) \div g, (s * d) \div g>>

RInt(i) == <<i, 1>>
RAdd(x, y) == Rat(x[1] * y[2] + y[1] * x[2], x[2] * y[2])
RSub(x, y) == Rat(x[1] * y[2] - y[1] * x[2], x[2] * y[2])
RMul(x, y) == Rat(x[1] * y[1], x[2] * y[2])
RDiv(x, y) == Rat(x[1] * y[2], x[2] * y[1])
RLt(x, y) == x[1] * y[2] < y[1] * x[2]
RAbs(x) == <<AbsInt(x[1]), x[2]>>
RZero == RInt(0)
ROne == RInt(1)
RHalf == Rat(1, 2)

RECURSIVE RSumSeq(_)
RSumSeq(s) == IF s = <<>> THEN RZero ELSE RAdd(Head(s), RSumSeq(Tail(s)))

\* a sequence given as a function on 1..n, as the tuple of its values
Vec(f) == f \o <<>>

\* F applied to the value of v
Then(v, F(_)) == F(v)

\* the sequences of length n over the set S
SeqsOfLen(S, n) == [1..n -> S]

(***************************************************************************)
(* python / numpy helpers                                                  *)
(***************************************************************************)
\* x[:-k] for k >= 1
DropLast(x, k) == IF Len(x) <= k THEN <<>> ELSE SubSeq(x, 1, Len(x) - k)
\* x[1:]
DropFirst(x) == IF Len(x) <= 1 THEN <<>> ELSE SubSeq(x, 2, Len(x))
\* jnp.ones((k, B))
Ones(k, B) == Vec([i \in 1..k |-> Vec([j \in 1..B |-> 1])])
\* jnp.zeros((k, B))
Zeros(k, B) == Vec([i \in 1..k |-> Vec([j \in 1..B |-> 0])])
\* the column b of a [T,B] array, as a [T,1] array
Column(x, b) == Vec([i \in 1..Len(x) |-> <<x[i][b]>>])

(***************************************************************************)
(* make_episode_mask                                                       *)
(***************************************************************************)
make_episode_mask_swapped(discount, include_final) ==
  LET B == Len(discount[1])
  IN  IF include_final
        THEN Ones(1, B) \o DropLast(discount, 1)
        ELSE Ones(2, B) \o DropLast(discount, 2)

make_episode_mask_unshifted(discount, include_final) ==
  IF include_final THEN discount ELSE Ones(1, Len(discount[1])) \o DropLast(discount, 1)

make_episode_mask(discount, include_final) ==
  LET B == Len(discount[1])
  IN  IF include_final
        THEN Ones(2, B) \o DropLast(discount, 2)
        ELSE Ones(1, B) \o DropLast(discount, 1)

DiscountValues == {0, 1}
DiscountArrays(maxT, maxB) ==
  UNION {[1..T -> [1..B -> DiscountValues]] : T \in 1..maxT, B \in 1..maxB}

MaskInit ==
  /\ m_pc = "ready"
  /\ m_discount \in DiscountArrays(MaxMaskT, MaxMaskB)
  /\ m_include_final = FALSE
  /\ m_mask = <<>>

CallMakeEpisodeMask ==
  /\ m_pc = "ready"
  /\ \E include_final \in BOOLEAN :
       /\ m_include_final' = include_final
       /\ m_mask' = make_episode_mask(m_discount, include_final)
  /\ m_pc' = "done"
  /\ UNCHANGED m_discount

(***************************************************************************)
(* TaskWeightedSFLossFn                                                    *)
(***************************************************************************)
WeightTypes == {"reg", "mag", "indicator", "other"}
Combinations == {"td", "loss", "other"}

\* 1e-5, the threshold of the 'indicator' weights
IndicatorEps == Rat(1, 100000)

\* loss_fn = lambda x: 0.5 * jnp.square(x)
half_square(x) == RMul(RHalf, RMul(x, x))

td_weights_of_nonzero(weight_type, task_w) ==
  Vec([c \in 1..Len(task_w) |->
     CASE weight_type = "mag" -> RAbs(task_w[c])
       [] weight_type = "reg" -> task_w[c]
       [] weight_type = "indicator" ->
            IF task_w[c] = RZero THEN ROne ELSE RZero])

td_weights_of(weight_type, task_w) ==
  Vec([c \in 1..Len(task_w) |->
     CASE weight_type = "mag" -> RAbs(task_w[c])
       [] weight_type = "reg" -> task_w[c]
       [] weight_type = "indicator" ->
            IF RLt(RAbs(task_w[c]), IndicatorEps) THEN ROne ELSE RZero])

task_weighted_loss_unweighted(self, td_error, td_weights) ==
  IF self.combination = "td"
    THEN half_square(RSumSeq(Vec([c \in 1..Len(td_error) |->
                                 RMul(td_error[c], td_weights[c])])))
    ELSE RSumSeq(Vec([c \in 1..Len(td_error) |-> half_square(td_error[c])]))

task_weighted_loss_of(self, td_error, td_weights) ==
  IF self.combination = "td"
    THEN half_square(RSumSeq(Vec([c \in 1..Len(td_error) |->
                                 RMul(td_error[c], td_weights[c])])))
    ELSE RSumSeq(Vec([c \in 1..Len(td_error) |->
                    RMul(half_square(td_error[c]), td_weights[c])]))

unweighted_loss_of(self, td_error) ==
  LET unweighted_td_error ==
        IF self.sum_cumulants
          THEN RSumSeq(td_error)
          ELSE RDiv(RSumSeq(td_error), RInt(Len(td_error)))
  IN  half_square(unweighted_td_error)

\* an exception object: its class and the arguments it was built with
NoException == [type |-> "", args |-> <<>>]
\* `raise NotImplementedError`: the class raised bare, so without arguments
NotImplementedError == [type |-> "NotImplementedError", args |-> <<>>]
\* a failed `assert cond, msg` (args = <<msg>>) or `assert cond` (args = <<>>)
AssertionError(args) == [type |-> "AssertionError", args |-> args]

\* TaskWeightedSFLossFn.__call__: raised is TRUE for NotImplementedError,
\* otherwise value is the pair (task_weighted_loss, unweighted_loss)
TaskWeightedSFLossFn(self, td_error, task_w) ==
  IF self.weight_type \notin {"mag", "reg", "indicator"}
    THEN [raised |-> TRUE, value |-> <<>>, exc |-> NotImplementedError]
    ELSE IF self.combination \notin {"td", "loss"}
      THEN [raised |-> TRUE, value |-> <<>>, exc |-> NotImplementedError]
      ELSE LET td_weights == td_weights_of(self.weight_type, task_w)
           IN  [raised |-> FALSE,
                value |-> <<task_weighted_loss_of(self, td_error, td_weights),
                            unweighted_loss_of(self, td_error)>>,
                exc |-> NoException]

TdErrorValues == {RInt(-1), RInt(0), RInt(1), RInt(2)}
TaskValues == {RInt(-1), RInt(0), Rat(1, 2), RInt(1)}
\* a task weight that is not zero and lies below the 'indicator' threshold;
\* drawn in 'indicator' mode, where the weights stay 0 or 1
NearZeroTask == Rat(1, 1000000)
TaskValuesOf(weight_type) ==
  IF weight_type = "indicator" THEN TaskValues \cup {NearZeroTask} ELSE TaskValues

WeightInit ==
  /\ w_pc = "ready"
  /\ w_self \in [weight_type : WeightTypes, combination : Combinations,
                 sum_cumulants : BOOLEAN]
  /\ \E C \in 1..MaxC :
       /\ w_td_error \in SeqsOfLen(TdErrorValues, C)
       /\ w_task_w \in SeqsOfLen(TaskValuesOf(w_self.weight_type), C)
  /\ w_out = <<>>
  /\ w_exc = NoException

CallTaskWeightedSFLossFn ==
  /\ w_pc = "ready"
  /\ LET out == TaskWeightedSFLossFn(w_self, w_td_error, w_task_w)
     IN  IF out.raised
           THEN w_pc' = "raised" /\ w_out' = <<>> /\ w_exc' = out.exc
           ELSE w_pc' = "done" /\ w_out' = out.value /\ w_exc' = NoException
  /\ UNCHANGED <<w_self, w_td_error, w_task_w>>

(***************************************************************************)
(* numpy arrays whose shape matters: [shape |-> <<..>>, val |-> nested     *)
(* sequences], of rank 1 ([B]) or rank 2 ([T,B]).                          *)
(***************************************************************************)
NpArr1(v) == [shape |-> <<Len(v)>>, val |-> v]
NpArr2(v, B) == [shape |-> <<Len(v), B>>, val |-> v]
\* jnp.zeros(B) and jnp.zeros((T, B))
NpZeros1(B) == NpArr1(Vec([b \in 1..B |-> RZero]))
NpZeros2(T, B) == NpArr2(Vec([t \in 1..T |-> Vec([b \in 1..B |-> RZero])]), B)
NpScale_dropped(x, coeff) == x

\* x * coeff for a python scalar coeff
NpScale(x, coeff) ==
  IF Len(x.shape) = 1
    THEN [x EXCEPT !.val = Vec([b \in 1..Len(x.val) |-> RMul(x.val[b], coeff)])]
    ELSE [x EXCEPT !.val = Vec([t \in 1..Len(x.val) |->
                              Vec([b \in 1..Len(x.val[t]) |-> RMul(x.val[t][b], coeff)])])]
\* x + y with numpy broadcasting of a [B] operand against a [T,B] operand
NpAdd(x, y) ==
  CASE Len(x.shape) = 1 /\ Len(y.shape) = 1 ->
         NpArr1(Vec([b \in 1..x.shape[1] |-> RAdd(x.val[b], y.val[b])]))
    [] Len(x.shape) = 1 /\ Len(y.shape) = 2 ->
         NpArr2(Vec([t \in 1..y.shape[1] |->
                   Vec([b \in 1..y.shape[2] |-> RAdd(x.val[b], y.val[t][b])])]),
                y.shape[2])
    [] Len(x.shape) = 2 /\ Len(y.shape) = 1 ->
         NpArr2(Vec([t \in 1..x.shape[1] |->
                   Vec([b \in 1..x.shape[2] |-> RAdd(x.val[t][b], y.val[b])])]),
                x.shape[2])
    [] Len(x.shape) = 2 /\ Len(y.shape) = 2 ->
         NpArr2(Vec([t \in 1..x.shape[1] |->
                   Vec([b \in 1..x.shape[2] |-> RAdd(x.val[t][b], y.val[t][b])])]),
                x.shape[2])
NpPadZeroRow_front(x, B) == NpArr2(NpZeros2(1, B).val \o x.val, B)

\* jnp.concatenate((x, jnp.zeros((1, B)))) for x of shape [T,B]
NpPadZeroRow(x, B) == NpArr2(x.val \o NpZeros2(1, B).val, B)
NpDropLastRow_kept(x) == x

\* x[:-1] for x of shape [T,B]
NpDropLastRow(x) == NpArr2(DropLast(x.val, 1), x.shape[2])

(***************************************************************************)
(* episode_mean(x, mask) for x and mask of shape [T,B]:                    *)
(* (x * mask).sum(0) / (mask.sum(0) + 1e-5), of shape [B]                  *)
(***************************************************************************)
MeanEps == Rat(1, 100000)

episode_mean(x, mask) ==
  Vec([b \in 1..Len(mask[1]) |->
     RDiv(RSumSeq(Vec([t \in 1..Len(x) |-> RMul(x[t][b], RInt(mask[t][b]))])),
          RAdd(RSumSeq(Vec([t \in 1..Len(mask) |-> RInt(mask[t][b])])), MeanEps))])

(***************************************************************************)
(* SFTDError (loss_fn = 'qlearning'): rlax.transformed_n_step_q_learning   *)
(* with the identity transform, applied to each cumulant dimension.        *)
(***************************************************************************)
\* jnp.argmax over a vector: the first index of the largest entry
ArgMax(q) ==
  CHOOSE a \in 1..Len(q) :
    /\ \A a2 \in 1..Len(q) : ~RLt(q[a], q[a2])
    /\ \A a2 \in 1..(a - 1) : RLt(q[a2], q[a])

\* the loop of rlax.n_step_bootstrapped_returns (lambda_t = 1):
\*   for i in reversed(range(n)):
\*     targets = r_t[i:i+seq_len] + discount_t[i:i+seq_len] * targets
\* on r_t padded with n-1 zeros and discount_t padded with n-1 ones
RECURSIVE n_step_loop(_, _, _, _)
n_step_loop(r_t, discount_t, targets, i) ==
  IF i < 0 THEN targets
  ELSE LET seq_len == Len(targets)
           r_(k) == IF i + k <= Len(r_t) THEN r_t[i + k] ELSE RZero
           d_(k) == IF i + k <= Len(discount_t) THEN discount_t[i + k] ELSE ROne
       IN  n_step_loop(r_t, discount_t,
             Vec([k \in 1..seq_len |-> RAdd(r_(k), RMul(d_(k), targets[k]))]),
             i - 1)

\* rlax.n_step_bootstrapped_returns(r_t, discount_t, v_t, n), seq_len >= 1:
\* the bootstrap values are v_t shifted by n-1 and padded with v_t[-1]
n_step_bootstrapped_returns(r_t, discount_t, v_t, n) ==
  LET seq_len == Len(r_t)
      targets == Vec([k \in 1..seq_len |->
                    IF k + n - 1 <= seq_len THEN v_t[k + n - 1] ELSE v_t[seq_len]])
  IN  n_step_loop(r_t, discount_t, targets, n - 1)

\* the engine reading online_sf at the first action instead of the action taken
SFTDError_first_action(td_fn, online_sf, online_actions, cumulants, discounts, target_sf, selector_actions) ==
  LET T == Len(online_sf)
      C == Len(cumulants[1])
      per_cumulant(c) ==
        LET v_t == Vec([t \in 1..T |-> target_sf[t][selector_actions[t]][c]])
            r_t == Vec([t \in 1..T |-> cumulants[t][c]])
            target_tm1 == n_step_bootstrapped_returns(r_t, discounts, v_t,
                                                      td_fn.bootstrap_n)
        IN  Vec([t \in 1..T |-> RSub(target_tm1[t], online_sf[t][1][c])])
  IN  Vec([t \in 1..T |-> Vec([c \in 1..C |-> per_cumulant(c)[t]])])

\* SFTDError.__call__ for one batch element: online_sf, target_sf [T,A,C],
\* online_actions, selector_actions, discounts [T], cumulants [T,C];
\* the result is [T,C]
SFTDError(td_fn, online_sf, online_actions, cumulants, discounts, target_sf, selector_actions) ==
  LET T == Len(online_sf)
      C == Len(cumulants[1])
      per_cumulant(c) ==
        LET v_t == Vec([t \in 1..T |-> target_sf[t][selector_actions[t]][c]])
            r_t == Vec([t \in 1..T |-> cumulants[t][c]])
            target_tm1 == n_step_bootstrapped_returns(r_t, discounts, v_t,
                                                      td_fn.bootstrap_n)
        IN  Vec([t \in 1..T |-> RSub(target_tm1[t], online_sf[t][online_actions[t]][c])])
  IN  Vec([t \in 1..T |-> Vec([c \in 1..C |-> per_cumulant(c)[t]])])

(***************************************************************************)
(* MtrlDynaUsfaLossFn                                                      *)
(*                                                                         *)
(* data is the record of the arrays the loss reads:                        *)
(*   discount [T,B], action [T,B] (1..A), cumulants [T-1,B,C] (what        *)
(*   extract_cumulants returns), sf and target_sf [T,B,A,C],               *)
(*   q_values [T,B,A], task [T,B,C].                                       *)
(* A metrics key f'{namespace}{k}' is the pair <<namespace, k>>.           *)
(***************************************************************************)
\* bootstrap_n: int = 5, the default of the SFTDError dataclass
SFTDError_bootstrap_n == 5

NoMetrics == [k \in {} |-> RZero]
Prefixed(namespace, metrics) ==
  [k \in {<<namespace, j>> : j \in DOMAIN metrics} |-> metrics[k[2]]]
\* metrics.update(new)
Update(metrics, new) == new @@ metrics

\* TaskWeightedSFLossFn(): the dataclass defaults
DefaultTaskWeightedSFLossFn ==
  [weight_type |-> "reg", combination |-> "loss", sum_cumulants |-> TRUE]

\* x.var(axis=-1) of a vector
Var(x) ==
  LET n == RInt(Len(x))
      mean == RDiv(RSumSeq(x), n)
  IN  RDiv(RSumSeq(Vec([i \in 1..Len(x) |->
                      RMul(RSub(x[i], mean), RSub(x[i], mean))])), n)

\* the SFTDError object ontask_loss constructs: SFTDError(loss_fn=self.loss_fn)
ontask_td_fn(self) ==
  [bootstrap_n |-> SFTDError_bootstrap_n, loss_fn |-> self.loss_fn]

\* the body of ontask_loss, given the engine td_fn it applies
ontask_loss_with(self, data, episode_mask, td_fn) ==
  LET T == Len(data.discount)
      B == Len(data.discount[1])
      A == Len(data.sf[1][1])
      C == Len(data.sf[1][1][1])
      masked(sf) == Vec([t \in 1..T |-> Vec([b \in 1..B |-> Vec([a \in 1..A |-> Vec([c \in 1..C |->
                       RMul(sf[t][b][a][c], RInt(episode_mask[t][b]))])])])])
      online_sf == masked(data.sf)
      target_sf == masked(data.target_sf)
      cumulants == data.cumulants
      discounts == Vec([t \in 1..T |-> Vec([b \in 1..B |->
                      RMul(RInt(data.discount[t][b]), self.discount)])])
      selector_actions == Vec([t \in 1..T |-> Vec([b \in 1..B |-> ArgMax(data.q_values[t][b])])])
      \* jax.vmap(td_fn, 1, 1): the engine on batch element b
      td_b(b) == SFTDError(td_fn,
                   Vec([t \in 1..(T - 1) |-> online_sf[t][b]]),
                   Vec([t \in 1..(T - 1) |-> data.action[t][b]]),
                   Vec([t \in 1..(T - 1) |-> cumulants[t][b]]),
                   Vec([t \in 1..(T - 1) |-> discounts[t][b]]),
                   Vec([t \in 1..(T - 1) |-> target_sf[t + 1][b]]),
                   Vec([t \in 1..(T - 1) |-> selector_actions[t + 1][b]]))
      td_all == Vec([b \in 1..B |-> td_b(b)])
      td_errors == Vec([t \in 1..(T - 1) |-> Vec([b \in 1..B |-> td_all[b][t]])])
      losses == Vec([t \in 1..(T - 1) |-> Vec([b \in 1..B |->
                   TaskWeightedSFLossFn(DefaultTaskWeightedSFLossFn,
                                        td_errors[t][b], data.task[t][b]).value])])
      task_weighted_loss == Vec([t \in 1..(T - 1) |-> Vec([b \in 1..B |-> losses[t][b][1]])])
      unweighted_loss == Vec([t \in 1..(T - 1) |-> Vec([b \in 1..B |-> losses[t][b][2]])])
      batch_loss == Vec([t \in 1..(T - 1) |-> Vec([b \in 1..B |->
                       RAdd(RMul(task_weighted_loss[t][b], self.weighted_coeff),
                            RMul(unweighted_loss[t][b], self.unweighted_coeff))])])
      \* td_errors.mean(axis=2)
      td_mean == Vec([t \in 1..(T - 1) |-> Vec([b \in 1..B |->
                    RDiv(RSumSeq(td_errors[t][b]), RInt(C))])])
      metrics ==
        [k \in {"0.total_loss", "1.unweighted_loss", "1.task_weighted_loss",
                "2.td_error", "3.cumulants", "3.sf_mean", "3.sf_var"} |->
           CASE k = "0.total_loss" -> batch_loss
             [] k = "1.unweighted_loss" -> unweighted_loss
             [] k = "1.task_weighted_loss" -> task_weighted_loss
             [] k = "2.td_error" ->
                  Vec([t \in 1..(T - 1) |-> Vec([b \in 1..B |-> RAbs(td_mean[t][b])])])
             [] k = "3.cumulants" -> cumulants
             [] k = "3.sf_mean" -> online_sf
             [] k = "3.sf_var" ->
                  Vec([t \in 1..T |-> Vec([b \in 1..B |-> Vec([a \in 1..A |->
                     Var(online_sf[t][b][a])])])])]
  IN  [td_errors |-> NpArr2(td_mean, B), batch_loss |-> NpArr2(batch_loss, B),
       metrics |-> metrics, td_fn |-> td_fn]

ontask_loss(self, data, episode_mask) ==
  ontask_loss_with(self, data, episode_mask, ontask_td_fn(self))

\* multitask_dyna_loss for one (t, b) from the point where the TD errors of
\* the imagined transitions are known: td_errors [M,K+1,C] and
\* sampled_tasks [M,C] are what the networks and the sampling produced
multitask_dyna_loss(self, td_errors, sampled_tasks) ==
  LET M == Len(td_errors)
      K1 == Len(td_errors[1])
      losses == Vec([m \in 1..M |-> Vec([k \in 1..K1 |->
                   TaskWeightedSFLossFn(DefaultTaskWeightedSFLossFn,
                                        td_errors[m][k], sampled_tasks[m]).value])])
      task_weighted_loss == Vec([m \in 1..M |-> Vec([k \in 1..K1 |-> losses[m][k][1]])])
      unweighted_loss == Vec([m \in 1..M |-> Vec([k \in 1..K1 |-> losses[m][k][2]])])
      batch_loss == Vec([m \in 1..M |-> Vec([k \in 1..K1 |->
                       RAdd(RMul(task_weighted_loss[m][k], self.weighted_coeff),
                            RMul(unweighted_loss[m][k], self.unweighted_coeff))])])
      mean2(x) == RDiv(RSumSeq(Vec([m \in 1..M |-> RSumSeq(x[m])])), RInt(M * K1))
      td_mean == RDiv(RSumSeq(Vec([m \in 1..M |-> RSumSeq(Vec([k \in 1..K1 |->
                        RSumSeq(td_errors[m][k])]))])),
                      RInt(M * K1 * Len(td_errors[1][1])))
  IN  [td_errors |-> td_mean, batch_loss |-> mean2(batch_loss),
       metrics |-> [k \in {"0.total_loss", "1.unweighted_loss",
                          "1.task_weighted_loss", "2.td_error"} |->
                      CASE k = "0.total_loss" -> mean2(batch_loss)
                        [] k = "1.unweighted_loss" -> unweighted_loss
                        [] k = "1.task_weighted_loss" -> task_weighted_loss
                        [] k = "2.td_error" -> RAbs(td_mean)]]

\* model_loss for one batch element: the assertion on simulation_steps, and
\* the total of the three losses the unrolled model gives (nets), with
\* action_mask = False
model_loss(self, T, model_nets) ==
  IF ~(self.simulation_steps < T)
    THEN [raised |-> TRUE, total_loss |-> RZero, metrics |-> NoMetrics]
    ELSE
      LET action_mask_loss == RMul(model_nets.action_mask_loss, RZero)
          total_loss ==
            RAdd(RAdd(RMul(RMul(model_nets.feature_loss, self.feature_coeff),
                           self.cat_coeff),
                      RMul(model_nets.sf_loss, self.model_sf_coeff)),
                 RMul(RMul(action_mask_loss, self.action_coeff), self.cat_coeff))
      IN  [raised |-> FALSE, total_loss |-> total_loss,
           metrics |-> [k \in {"0.feature_loss", "0.sf_loss", "1.action_mask_loss"} |->
                          CASE k = "0.feature_loss" -> model_nets.feature_loss
                            [] k = "0.sf_loss" -> model_nets.sf_loss
                            [] k = "1.action_mask_loss" -> action_mask_loss]]

NoTdFn == [built |-> FALSE]

\* `if self.<term>_coeff > 0:` the test that guards each of the three terms
enabled_nonneg(coeff) == coeff >= 0

enabled(coeff) == coeff > 0

\* MtrlDynaUsfaLossFn.error, one block of the method at a time.  The running
\* value s holds total_batch_td_error (td), total_batch_loss (loss) and
\* metrics; raised is TRUE when an assertion fails, calls are the sub-losses
\* invoked, td_fn the engine ontask_loss built.

\* metrics = {}, total_batch_td_error = jnp.zeros((T, B)) and
\* total_batch_loss = jnp.zeros(B)
error_zeros(data) ==
  [td |-> NpZeros2(Len(data.discount), Len(data.discount[1])),
   loss |-> NpZeros1(Len(data.discount[1])), metrics |-> NoMetrics,
   calls |-> {}, td_fn |-> NoTdFn, raised |-> FALSE, exc |-> NoException]

\* Dyna SF-learning loss
error_dyna(self, data, nets, episode_mask, s) ==
  IF enabled(self.dyna_coeff)
    THEN
      LET T == Len(data.discount)
          B == Len(data.discount[1])
          per == Vec([t \in 1..T |-> Vec([b \in 1..B |->
                    multitask_dyna_loss(self, nets.dyna_td_errors[t][b],
                                        nets.dyna_tasks[t][b])])])
          dyna_td_error == NpArr2(Vec([t \in 1..T |-> Vec([b \in 1..B |->
                                     per[t][b].td_errors])]), B)
          dyna_batch_loss ==
            NpArr1(episode_mean(Vec([t \in 1..T |-> Vec([b \in 1..B |->
                                   per[t][b].batch_loss])]), episode_mask))
          dyna_metrics ==
            [k \in DOMAIN per[1][1].metrics |->
               Vec([t \in 1..T |-> Vec([b \in 1..B |-> per[t][b].metrics[k]])])]
      IN  [s EXCEPT
             !.td = NpAdd(@, NpScale(dyna_td_error, RInt(self.dyna_coeff))),
             !.loss = NpAdd(@, NpScale(dyna_batch_loss, RInt(self.dyna_coeff))),
             !.metrics = Update(@, Prefixed("2.dyna.", dyna_metrics)),
             !.calls = @ \cup {"multitask_dyna_loss"}]
    ELSE s

\* `assert T > 1, 'need at least 2 state for this'`
at_least_three_states(T) == T > 2

at_least_two_states(T) == T > 1

\* Online SF-learning loss
error_ontask(self, data, episode_mask, s) ==
  IF enabled(self.task_coeff)
    THEN
      IF ~at_least_two_states(Len(data.discount))
        THEN [s EXCEPT !.raised = TRUE,
                       !.exc = AssertionError(<<"need at least 2 state for this">>)]
        ELSE
          LET ontask == ontask_loss(self, data, episode_mask)
              ontask_batch_td_error ==
                NpPadZeroRow(ontask.td_errors, Len(data.discount[1]))
          IN  [s EXCEPT
                 !.td = NpAdd(@, NpScale(ontask_batch_td_error,
                                         RInt(self.task_coeff))),
                 !.loss = NpAdd(@, NpScale(ontask.batch_loss,
                                           RInt(self.task_coeff))),
                 !.metrics = Update(@, Prefixed("1.online.", ontask.metrics)),
                 !.calls = @ \cup {"ontask_loss"},
                 !.td_fn = [built |-> TRUE] @@ ontask.td_fn]
    ELSE s

\* Model loss
error_model(self, data, nets, s) ==
  IF ~s.raised /\ enabled(self.model_coeff)
    THEN
      LET B == Len(data.discount[1])
          per == Vec([b \in 1..B |->
                    model_loss(self, Len(data.discount), nets.model[b])])
          model_batch_loss == NpArr1(Vec([b \in 1..B |-> per[b].total_loss]))
          model_metrics == [k \in DOMAIN per[1].metrics |->
                              Vec([b \in 1..B |-> per[b].metrics[k]])]
      IN  IF \E b \in 1..B : per[b].raised
            THEN [s EXCEPT !.raised = TRUE, !.calls = @ \cup {"model_loss"},
                           !.exc = AssertionError(<<>>)]
            ELSE [s EXCEPT
                    !.loss = NpAdd(@, NpScale(model_batch_loss,
                                              RInt(self.model_coeff))),
                    !.metrics = Update(@, Prefixed("3.model.", model_metrics)),
                    !.calls = @ \cup {"model_loss"}]
    ELSE s

\* metrics['0.total_loss'] = total_batch_loss;
\* total_batch_td_error = total_batch_td_error[:-1]; return
error_return(s) ==
  [raised |-> s.raised,
   td_error |-> NpDropLastRow(s.td),
   loss |-> s.loss,
   metrics |-> Update(s.metrics, [k \in {<<"", "0.total_loss">>} |-> s.loss]),
   calls |-> s.calls,
   td_fn |-> s.td_fn,
   exc |-> s.exc]

\* the blocks in the order of the method, each on the value the one before
\* left
error(self, data, nets) ==
  Then(make_episode_mask(data.discount, FALSE), LAMBDA episode_mask :
    Then(error_dyna(self, data, nets, episode_mask, error_zeros(data)), LAMBDA s1 :
      Then(error_ontask(self, data, episode_mask, s1), LAMBDA s2 :
        Then(error_model(self, data, nets, s2), LAMBDA s3 :
          error_return(s3)))))

(***************************************************************************)
(* The batches and objects the loss is applied to.                         *)
(***************************************************************************)
NumActions == 2
NumCumulants == 2
CoeffValues == {-1, 1, 2}
DynaCoeffValues == {0, 1}
ModelCoeffValues == {0, 1}
BootstrapNs == {1, SFTDError_bootstrap_n}
SimulationSteps == {1}
Variants == {0, 1}

LossFns ==
  [task_coeff : CoeffValues, dyna_coeff : DynaCoeffValues,
   model_coeff : ModelCoeffValues, bootstrap_n : BootstrapNs,
   loss_fn : {"qlearning"}, discount : {Rat(1, 2)},
   weighted_coeff : {ROne}, unweighted_coeff : {ROne},
   simulation_steps : SimulationSteps,
   feature_coeff : {ROne}, model_sf_coeff : {ROne}, action_coeff : {ROne},
   cat_coeff : {Rat(1, 100)}]

\* A batch of B episodes of T steps: episode b is active for ks[b] steps
\* (discount 1) and padded with discount 0; the other arrays are filled
\* with small values that differ along every axis (tt, bb are the python
\* indices t-1, b-1).
MakeData(T, B, ks, v) ==
  [discount |-> Vec([t \in 1..T |-> Vec([b \in 1..B |-> IF t <= ks[b] THEN 1 ELSE 0])]),
   action |-> Vec([t \in 1..T |-> Vec([b \in 1..B |-> ((t + b + v) % NumActions) + 1])]),
   cumulants |-> Vec([t \in 1..(T - 1) |-> Vec([b \in 1..B |-> Vec([c \in 1..NumCumulants |->
                    RInt((t + c + b + v) % 2)])])]),
   sf |-> Vec([t \in 1..T |-> Vec([b \in 1..B |-> Vec([a \in 1..NumActions |->
             Vec([c \in 1..NumCumulants |-> RInt((t + a + 2 * c + b + v) % 3)])])])]),
   target_sf |-> Vec([t \in 1..T |-> Vec([b \in 1..B |-> Vec([a \in 1..NumActions |->
                    Vec([c \in 1..NumCumulants |-> RInt((2 * t + a + c + v) % 3)])])])]),
   q_values |-> Vec([t \in 1..T |-> Vec([b \in 1..B |-> Vec([a \in 1..NumActions |->
                   RInt((t * a + b + v) % 2)])])]),
   task |-> Vec([t \in 1..T |-> Vec([b \in 1..B |-> Vec([c \in 1..NumCumulants |->
               RInt(((c + b + v) % 3) - 1)])])])]

\* What the networks give the Dyna loss at (t, b) (one sampled task, one
\* sampled action plus the greedy one) and the model loss at b.
MakeNets(T, B, v) ==
  [dyna_td_errors |-> Vec([t \in 1..T |-> Vec([b \in 1..B |->
       << <<Vec([c \in 1..NumCumulants |-> RInt(((t + c + v) % 2) + 1)]),
            Vec([c \in 1..NumCumulants |-> RInt((b + c + v) % 2)])>> >>])]),
   dyna_tasks |-> Vec([t \in 1..T |-> Vec([b \in 1..B |->
       <<Vec([c \in 1..NumCumulants |-> RInt((c + v) % 2)])>>])]),
   model |-> Vec([b \in 1..B |->
       [feature_loss |-> RInt(100 * (b + v)), sf_loss |-> Rat(b, 2),
        action_mask_loss |-> RZero]])]

NoOut == [td_error |-> NpZeros2(0, 0), loss |-> NpZeros1(0), metrics |-> NoMetrics]
NotCalled == [called |-> FALSE]

ErrorInit ==
  /\ e_pc = "ready"
  /\ e_self \in LossFns
  /\ \E T \in 1..MaxT, B \in 1..MaxB, v \in Variants :
       /\ e_nets = MakeNets(T, B, v)
       /\ \E ks \in [1..B -> 0..T] : e_data = MakeData(T, B, ks, v)
  /\ e_calls = {}
  /\ e_td_fn = NoTdFn
  /\ e_out = NoOut
  /\ e_direct = NotCalled
  /\ e_alt = NotCalled
  /\ e_exc = NoException

\* what the caller holds once error() has returned r, or raised
ErrorReturns(r) ==
  /\ e_pc' = IF r.raised THEN "raised" ELSE "returned"
  /\ e_out' = IF r.raised THEN NoOut
              ELSE [td_error |-> r.td_error, loss |-> r.loss,
                    metrics |-> r.metrics]
  /\ e_calls' = r.calls
  /\ e_td_fn' = r.td_fn
  /\ e_exc' = r.exc

\* the learner calls loss.error(data, online_preds, ..., key_grad)
CallError ==
  /\ e_pc = "ready"
  /\ ErrorReturns(error(e_self, e_data, e_nets))
  /\ UNCHANGED <<e_self, e_data, e_nets, e_direct, e_alt>>

OntaskLossReturns(r) ==
  e_direct' = [called |-> TRUE, td_errors |-> r.td_errors,
               batch_loss |-> r.batch_loss, metrics |-> r.metrics]

\* ontask_loss called directly on the same inputs
CallOntaskLoss ==
  /\ e_pc = "returned"
  /\ ~e_direct.called
  /\ Len(e_data.discount) > 1
  /\ OntaskLossReturns(ontask_loss(e_self, e_data,
                                   make_episode_mask(e_data.discount, FALSE)))
  /\ UNCHANGED <<e_pc, e_self, e_data, e_nets, e_calls, e_td_fn, e_out, e_alt,
                 e_exc>>

\* The batch with one entry changed: the cumulant c of step t of episode b
\* raised by one, or the action of step t of episode b replaced by the next
\* action.
Perturbations(data) ==
  LET T == Len(data.discount)
      B == Len(data.discount[1])
  IN  [kind : {"cumulants"}, t : 1..(T - 1), b : 1..B, c : 1..NumCumulants]
        \cup [kind : {"action"}, t : 1..T, b : 1..B, c : {1}]

Perturb(data, p) ==
  IF p.kind = "cumulants"
    THEN [data EXCEPT !.cumulants[p.t][p.b][p.c] = RAdd(@, ROne)]
    ELSE [data EXCEPT !.action[p.t][p.b] = (@ % NumActions) + 1]

\* The batch with the single entry online_sf[t, b, a, c] raised by one.
SfPerturbations(data) ==
  LET T == Len(data.discount)
      B == Len(data.discount[1])
  IN  [kind : {"sf"}, t : 1..T, b : 1..B, a : 1..NumActions,
       c : 1..NumCumulants]

PerturbOnlineSf(data, p) ==
  [data EXCEPT !.sf[p.t][p.b][p.a][p.c] = RAdd(@, ROne)]

PerturbedErrorReturns(p, r) ==
  e_alt' = [called |-> TRUE, pert |-> p, td_error |-> r.td_error,
            loss |-> r.loss]

\* error() called again on the changed batch
CallErrorPerturbed ==
  /\ e_pc = "returned"
  /\ ~e_alt.called
  /\ \E p \in Perturbations(e_data) :
       PerturbedErrorReturns(p, error(e_self, Perturb(e_data, p), e_nets))
  /\ UNCHANGED <<e_pc, e_self, e_data, e_nets, e_calls, e_td_fn, e_out, e_direct,
                 e_exc>>

\* error() called again on the batch with one entry of online_sf changed
CallErrorSfPerturbed ==
  /\ e_pc = "returned"
  /\ ~e_alt.called
  /\ \E p \in SfPerturbations(e_data) :
       PerturbedErrorReturns(p, error(e_self, PerturbOnlineSf(e_data, p), e_nets))
  /\ UNCHANGED <<e_pc, e_self, e_data, e_nets, e_calls, e_td_fn, e_out, e_direct,
                 e_exc>>

(***************************************************************************)
(* SFTDError called on one batch element                                   *)
(***************************************************************************)
\* SFTDError.__call__ with its dispatch on loss_fn.  The 'qlambda' branch
\* calls q_learning_lambda of another module and is not drawn as an input.
SFTDError_call(self, args) ==
  CASE self.loss_fn = "qlearning" ->
         [raised |-> FALSE, exc |-> NoException,
          value |-> SFTDError(self, args.online_sf, args.online_actions,
                              args.cumulants, args.discounts, args.target_sf,
                              args.selector_actions)]
    [] self.loss_fn \notin {"qlearning", "qlambda"} ->
         [raised |-> TRUE, exc |-> NotImplementedError, value |-> <<>>]

TdLossFns == {"qlearning", "other"}
TdBootstrapNs == {1, 2, SFTDError_bootstrap_n}

\* the arguments ontask_loss passes for batch element 1 of data, unmasked
TdArgs(data, discount) ==
  [online_sf |-> Vec([t \in 1..(Len(data.sf) - 1) |-> data.sf[t][1]]),
   online_actions |-> Vec([t \in 1..(Len(data.sf) - 1) |-> data.action[t][1]]),
   cumulants |-> Vec([t \in 1..(Len(data.sf) - 1) |-> data.cumulants[t][1]]),
   discounts |-> Vec([t \in 1..(Len(data.sf) - 1) |->
                    RMul(RInt(data.discount[t][1]), discount)]),
   target_sf |-> Vec([t \in 1..(Len(data.sf) - 1) |-> data.target_sf[t + 1][1]]),
   selector_actions |-> Vec([t \in 1..(Len(data.sf) - 1) |->
                           ArgMax(data.q_values[t + 1][1])])]

TdInit ==
  /\ t_pc = "ready"
  /\ t_self \in [bootstrap_n : TdBootstrapNs, loss_fn : TdLossFns]
  /\ \E T \in 2..MaxT, v \in Variants : \E ks \in [1..1 -> 0..T] :
       t_args = TdArgs(MakeData(T, 1, ks, v), Rat(1, 2))
  /\ t_out = <<>>
  /\ t_exc = NoException

SFTDErrorReturns(r) ==
  /\ t_pc' = IF r.raised THEN "raised" ELSE "done"
  /\ t_out' = r.value
  /\ t_exc' = r.exc

CallSFTDError ==
  /\ t_pc = "ready"
  /\ SFTDErrorReturns(SFTDError_call(t_self, t_args))
  /\ UNCHANGED <<t_self, t_args>>

(***************************************************************************)
(* model_loss: the start states of the unrolls                             *)
(***************************************************************************)
MaxSteps == 3

\* x[:stop] of a python sequence: a negative stop counts from the end
SliceTo(x, stop) ==
  LET n == Len(x)
      e == IF stop < 0 THEN (IF n + stop < 0 THEN 0 ELSE n + stop)
           ELSE (IF stop > n THEN n ELSE stop)
  IN  SubSeq(x, 1, e)

\* shorten: lambda x: x[:-self.simulation_steps]  (-0 is 0)
shorten(x, simulation_steps) == SliceTo(x, 0 - simulation_steps)

\* model_loss up to start_states
model_loss_start_states(self, state) ==
  IF ~(self.simulation_steps < Len(state))
    THEN [raised |-> TRUE, exc |-> AssertionError(<<>>), start_states |-> <<>>]
    ELSE [raised |-> FALSE, exc |-> NoException,
          start_states |-> shorten(state, self.simulation_steps)]

StateValues == {0, 1}

ModelLossInit ==
  /\ k_pc = "ready"
  /\ k_self \in [simulation_steps : 0..MaxSteps]
  /\ \E T \in 1..MaxT : k_state \in SeqsOfLen(StateValues, T)
  /\ k_start = <<>>
  /\ k_exc = NoException

ModelLossUnrolls(r) ==
  /\ k_pc' = IF r.raised THEN "raised" ELSE "unrolled"
  /\ k_start' = r.start_states
  /\ k_exc' = r.exc

CallModelLoss ==
  /\ k_pc = "ready"
  /\ ModelLossUnrolls(model_loss_start_states(k_self, k_state))
  /\ UNCHANGED <<k_self, k_state>>

(***************************************************************************)
(* multitask_dyna_loss: the tasks and actions sampled                      *)
(***************************************************************************)
MaxTasks == 2
MaxActions == 2

max(a, b) == IF a > b THEN a ELSE b

min(a, b) == IF a < b THEN a ELSE b

\* jax.random.choice(key, num, shape=(n,), replace=False): every sequence
\* of n pairwise different entries of 1..num may come out; there is none when
\* n > num, and the call raises ValueError
jax_random_choice(num, n) ==
  {x \in [1..n -> 1..num] : \A i, j \in 1..n : x[i] = x[j] => i = j}

\* the greedy action kept first instead of appended last
sampled_actions_greedy_first(sampled_actions, q_values) ==
  <<ArgMax(q_values)>> \o sampled_actions

\* sf_dyna_td: sampled_actions = concatenate((sampled_actions,
\* optimal_q_action[None])) with optimal_q_action = argmax(q_values)
sampled_actions_of(sampled_actions, q_values) ==
  sampled_actions \o <<ArgMax(q_values)>>

\* what multitask_dyna_loss can sample: ntasks task indices and, for each
\* of them, the actions of sf_dyna_td
dyna_samples(self, q_values) ==
  LET num_actions == Len(q_values[1])
      max_tasks == Len(q_values)
      ntasks == min(max_tasks, self.n_tasks_dyna)
      nactions == min(self.n_actions_dyna, num_actions)
  IN  [tasks : jax_random_choice(max_tasks, ntasks),
       actions : [1..ntasks -> jax_random_choice(num_actions, nactions)]]

DynaInit ==
  /\ d_pc = "ready"
  /\ d_self \in [n_tasks_dyna : 1..(MaxTasks + 1),
                 n_actions_dyna : 1..(MaxActions + 1)]
  /\ \E N \in 1..MaxTasks, A \in 1..MaxActions, v \in Variants :
       d_q_values = Vec([i \in 1..N |-> Vec([a \in 1..A |->
                           RInt((i * a + v) % 2)])])
  /\ d_sampled_tasks = <<>>
  /\ d_sampled_actions = <<>>

\* the Dyna loss samples, or fails inside jax.random.choice
CallDynaSampling ==
  /\ d_pc = "ready"
  /\ IF dyna_samples(d_self, d_q_values) = {}
       THEN /\ d_pc' = "raised"
            /\ UNCHANGED <<d_sampled_tasks, d_sampled_actions>>
       ELSE \E x \in dyna_samples(d_self, d_q_values) :
              /\ d_pc' = "sampled"
              /\ d_sampled_tasks' = Vec(x.tasks)
              /\ d_sampled_actions' =
                   Vec([m \in 1..Len(x.tasks) |->
                          sampled_actions_of(Vec(x.actions[m]),
                                             d_q_values[x.tasks[m]])])
  /\ UNCHANGED <<d_self, d_q_values>>

(***************************************************************************)
(* model_loss.compute_losses: the SF loss of one start timestep            *)
(***************************************************************************)
\* the SF part of compute_losses for one start timestep: predicted_sf_,
\* sf_target_ and task_weights_ are [k,C], sf_mask_ is [k]
compute_losses_sf(self, args) ==
  LET k == Len(args.predicted_sf_)
      C == Len(args.predicted_sf_[1])
      sf_td == Vec([i \in 1..k |-> Vec([c \in 1..C |->
                  RSub(args.sf_target_[i][c], args.predicted_sf_[i][c])])])
      losses == Vec([i \in 1..k |->
                   TaskWeightedSFLossFn(DefaultTaskWeightedSFLossFn,
                                        sf_td[i], args.task_weights_[i]).value])
      sf_loss == Vec([i \in 1..k |->
                    RAdd(RMul(losses[i][1], self.weighted_coeff),
                         RMul(losses[i][2], self.unweighted_coeff))])
  IN  \* sf_loss.mean(-1)
      RDiv(RSumSeq(sf_loss), RInt(k))

ComputeLossesInit ==
  /\ c_pc = "ready"
  /\ c_self = [weighted_coeff |-> ROne, unweighted_coeff |-> ROne]
  /\ \E k \in 1..MaxSteps, v \in Variants : \E mask \in SeqsOfLen({0, 1}, k) :
       c_args =
         [predicted_sf_ |-> Vec([i \in 1..k |-> Vec([c \in 1..NumCumulants |->
                               RInt((i + 2 * c + v) % 3)])]),
          sf_target_ |-> Vec([i \in 1..k |-> Vec([c \in 1..NumCumulants |->
                            RInt((2 * i + c + v) % 3)])]),
          task_weights_ |-> Vec([i \in 1..k |-> Vec([c \in 1..NumCumulants |->
                               RInt(((c + v) % 3) - 1)])]),
          sf_mask_ |-> Vec(mask)]
  /\ c_out = <<>>
  /\ c_alt = NotCalled

CallComputeLosses ==
  /\ c_pc = "ready"
  /\ c_pc' = "done"
  /\ c_out' = compute_losses_sf(c_self, c_args)
  /\ UNCHANGED <<c_self, c_args, c_alt>>

\* the arguments with the SF target or the predicted SF of simulation step
\* i, cumulant c, raised by one
PerturbSf(args, p) ==
  IF p.kind = "sf_target_"
    THEN [args EXCEPT !.sf_target_[p.i][p.c] = RAdd(@, ROne)]
    ELSE [args EXCEPT !.predicted_sf_[p.i][p.c] = RAdd(@, ROne)]

\* compute_losses called again on the changed arguments
CallComputeLossesPerturbed ==
  /\ c_pc = "done"
  /\ ~c_alt.called
  /\ \E p \in [kind : {"sf_target_", "predicted_sf_"},
               i : 1..Len(c_args.sf_mask_), c : 1..NumCumulants] :
       c_alt' = [called |-> TRUE, pert |-> p,
                 sf_loss |-> compute_losses_sf(c_self, PerturbSf(c_args, p))]
  /\ UNCHANGED <<c_pc, c_self, c_args, c_out>>

(***************************************************************************)
(* HasKeyFilter (library/experiment_logger.py)                             *)
(***************************************************************************)
\* the most write calls made on one filter
MaxWrites == 2

\* python values a logger is given: numbers and None
PyInt(n) == [type |-> "int", value |-> n]
PyNone == [type |-> "NoneType", value |-> 0]
PyValues == {PyInt(0), PyInt(1), PyNone}

\* bool(v): None and 0 are false
truthy(v) == v.type = "int" /\ v.value # 0

\* the keys of the mappings written; the filter is configured with one of them
LogKeys == {"log_data", "loss"}

\* the values mappings (dicts) over LogKeys
LoggingData == UNION {[ks -> PyValues] : ks \in SUBSET LogKeys}

\* dict.pop(key, default): the value popped and the dict that is left
dict_pop(values, key, default) ==
  IF key \in DOMAIN values
    THEN [result |-> values[key],
          dict |-> [k \in (DOMAIN values) \ {key} |-> values[k]]]
    ELSE [result |-> default, dict |-> values]

\* make_logger(log_with_key=key): HasKeyFilter(logger, key=log_with_key)
HasKeyInit ==
  /\ h_self \in [_key : LogKeys]
  /\ h_calls = <<>>
  /\ h_to = <<>>

\* the filter that forwards whenever the key is in the mapping
forward_if_present(self, values, popped) == self._key \in DOMAIN values

\* 'if hasdata:' of write
forward_if_hasdata(self, values, popped) == truthy(popped.result)

\* HasKeyFilter.write(values): values.pop(self._key, None) and, when the
\* popped value is true, self._to.write(values) with the dict that is left
HasKeyFilter_write ==
  /\ Len(h_calls) < MaxWrites
  /\ \E values \in LoggingData :
       LET popped == dict_pop(values, h_self._key, PyNone)
           forwarded == forward_if_hasdata(h_self, values, popped)
       IN  /\ h_calls' = Append(h_calls, [values |-> values,
                                          forwarded |-> forwarded,
                                          left |-> popped.dict])
           /\ h_to' = IF forwarded THEN Append(h_to, popped.dict) ELSE h_to
  /\ UNCHANGED h_self

(***************************************************************************)
(* make_logger and WandbLogger (library/experiment_logger.py)              *)
(***************************************************************************)
\* the keys of the mappings written to the logger make_logger returns
WandbKeys == {"steps", "loss"}

\* steps_key: Optional[str]
StepsKeys ==
  {[none |-> FALSE, key |-> k] : k \in WandbKeys} \cup {[none |-> TRUE, key |-> ""]}

\* the values mappings written: numbers under some of the keys.  (NoneFilter
\* and the Dispatcher's serialize_fn hand such a mapping on as it is.)
WandbData == UNION {[ks -> {PyInt(0), PyInt(1)}] : ks \in SUBSET WandbKeys}

\* WandbLogger.__init__(label, steps_key)
WandbLogger(steps_key) == [_steps_key |-> steps_key, _iter |-> 0]

\* make_logger: the loggers the Dispatcher writes to, and the WandbLogger it
\* constructs with steps_key=steps_key when use_wandb (wandb is importable)
make_logger(use_wandb, steps_key) ==
  [loggers |-> IF use_wandb THEN {"terminal", "wandb"} ELSE {"terminal"},
   wandb |-> WandbLogger(steps_key)]

WandbInit ==
  /\ \E use_wandb \in BOOLEAN, steps_key \in StepsKeys :
       g_self = make_logger(use_wandb, steps_key)
  /\ g_calls = <<>>
  /\ g_wandb = <<>>

\* 'if self._steps_key is not None and self._steps_key not in values: return'
steps_key_missing(self, values) ==
  ~self._steps_key.none /\ self._steps_key.key \notin DOMAIN values

\* WandbLogger.write: what wandb.log receives (the step and the keys logged,
\* the names given to them left out), or nothing when the write is skipped
WandbLogger_write(self, values) ==
  IF steps_key_missing(self, values)
    THEN [logged |-> FALSE, self |-> self, to_log |-> <<>>]
    ELSE [logged |-> TRUE,
          self |-> [self EXCEPT !._iter = @ + 1],
          to_log |-> [step |-> IF self._steps_key.none THEN PyInt(self._iter)
                               ELSE values[self._steps_key.key],
                      keys |-> (DOMAIN values) \ {self._steps_key.key}]]

\* logger.write(values) on the logger make_logger returned
LoggerWrite ==
  /\ Len(g_calls) < MaxWrites
  /\ \E values \in WandbData :
       IF "wandb" \in g_self.loggers
         THEN LET r == WandbLogger_write(g_self.wandb, values)
              IN  /\ g_self' = [g_self EXCEPT !.wandb = r.self]
                  /\ g_calls' = Append(g_calls, [values |-> values,
                                                 logged |-> r.logged])
                  /\ g_wandb' = IF r.logged THEN Append(g_wandb, r.to_log)
                                ELSE g_wandb
         ELSE /\ g_calls' = Append(g_calls, [values |-> values,
                                             logged |-> FALSE])
              /\ UNCHANGED <<g_self, g_wandb>>

(***************************************************************************)
(* get_actor_core (td_agents/sf_agents.py)                                 *)
(***************************************************************************)
\* the most select_action calls made on one actor state
MaxSelects == 2

\* a float, in hundredths
PyFloat(n) == [type |-> "float", value |-> n]

\* bool(v) of a number or None
py_bool(v) == v.type # "NoneType" /\ v.value # 0

\* config.num_epsilons (0: not specified) and config.evaluation_epsilon
\* (None: not specified)
ActorConfigs ==
  [num_epsilons : {PyInt(0), PyInt(1), PyInt(2)},
   evaluation_epsilon : {PyNone, PyFloat(0), PyFloat(5)}]

ValueError == [type |-> "ValueError", args |-> <<>>]

\* 'if (not num_epsilons and evaluation_epsilon is None) or (num_epsilons
\* and evaluation_epsilon)'
get_actor_core_raises(config) ==
  \/ ~py_bool(config.num_epsilons) /\ config.evaluation_epsilon = PyNone
  \/ py_bool(config.num_epsilons) /\ py_bool(config.evaluation_epsilon)

\* a PRNG key is the path of splits that led to it; jax.random.split(key, n)
jax_random_split(key, n) == [i \in 1..n |-> Append(key, i)]

\* the recurrent states the network can be in
RecurrentStates == {"h0", "h1", "h2"}

NoActorState ==
  [rng |-> <<>>, epsilon |-> PyNone, recurrent_state |-> "",
   prev_recurrent_state |-> ""]

\* init(rng) with initial_core_state = networks.init_recurrent_state(...)
\* and epsilon the entry drawn from np.logspace(..., num_epsilons), given by
\* its index, or evaluation_epsilon when evaluating
actor_init(rng, epsilon, initial_core_state) ==
  LET keys == jax_random_split(rng, 3)
  IN  [rng |-> keys[1], epsilon |-> epsilon,
       recurrent_state |-> initial_core_state,
       prev_recurrent_state |-> initial_core_state]

\* select_action keeping the new recurrent state as prev_recurrent_state
select_action_prev_is_new(state, recurrent_state) ==
  [rng |-> jax_random_split(state.rng, 2)[1],
   epsilon |-> state.epsilon,
   recurrent_state |-> recurrent_state,
   prev_recurrent_state |-> recurrent_state]

\* select_action(params, observation, state), with recurrent_state what
\* networks.apply returned: the state it returns
select_action(state, recurrent_state) ==
  [rng |-> jax_random_split(state.rng, 2)[1],
   epsilon |-> state.epsilon,
   recurrent_state |-> recurrent_state,
   prev_recurrent_state |-> state.recurrent_state]

\* get_extras(state)
get_extras(state) == [core_state |-> state.prev_recurrent_state]

ActorInit ==
  /\ a_pc = "ready"
  /\ a_config \in ActorConfigs
  /\ a_evaluation \in BOOLEAN
  /\ a_state = NoActorState
  /\ a_first = NotCalled
  /\ a_calls = <<>>
  /\ a_extras = NotCalled
  /\ a_exc = NoException

\* what the caller holds once init has returned state
ActorInitReturns(initial_core_state, state) ==
  /\ a_pc' = "running"
  /\ a_state' = state
  /\ a_first' = [called |-> TRUE, initial_core_state |-> initial_core_state,
                 state |-> state]
  /\ a_exc' = a_exc

\* get_actor_core(networks, config, evaluation)
GetActorCore ==
  /\ a_pc = "ready"
  /\ IF get_actor_core_raises(a_config)
       THEN a_pc' = "raised" /\ a_exc' = ValueError
       ELSE a_pc' = "built" /\ a_exc' = a_exc
  /\ UNCHANGED <<a_config, a_evaluation, a_state, a_first, a_calls, a_extras>>

\* init(rng) of the actor core.  When not evaluating, jax.random.choice
\* draws from np.logspace(..., num_epsilons), which is empty (and the draw
\* fails) for num_epsilons = 0.
CallActorInit ==
  /\ a_pc = "built"
  /\ \E initial_core_state \in RecurrentStates :
       IF a_evaluation
         THEN ActorInitReturns(initial_core_state,
                actor_init(<<>>, a_config.evaluation_epsilon, initial_core_state))
         ELSE IF a_config.num_epsilons.value = 0
           THEN /\ a_pc' = "init_raised"
                /\ a_exc' = ValueError
                /\ UNCHANGED <<a_state, a_first>>
           ELSE \E i \in 1..a_config.num_epsilons.value :
                  ActorInitReturns(initial_core_state,
                    actor_init(<<>>, [type |-> "logspace", value |-> i],
                               initial_core_state))
  /\ UNCHANGED <<a_config, a_evaluation, a_calls, a_extras>>

\* select_action on the state the last call returned; networks.apply gives
\* any recurrent state
CallSelectAction ==
  /\ a_pc = "running"
  /\ Len(a_calls) < MaxSelects
  /\ \E recurrent_state \in RecurrentStates :
       /\ a_state' = select_action(a_state, recurrent_state)
       /\ a_calls' = Append(a_calls, [passed |-> a_state,
                                      applied |-> recurrent_state])
  /\ UNCHANGED <<a_pc, a_config, a_evaluation, a_first, a_extras, a_exc>>

\* get_extras on the current state
CallGetExtras ==
  /\ a_pc = "running"
  /\ a_extras' = [called |-> TRUE, at |-> Len(a_calls),
                  extras |-> get_extras(a_state)]
  /\ UNCHANGED <<a_pc, a_config, a_evaluation, a_state, a_first, a_calls, a_exc>>

(***************************************************************************)
(* UsfaLossFn.error (td_agents/sf_agents.py): the rows given to the TD     *)
(* computation of one batch element                                        *)
(***************************************************************************)
RuntimeError(args) == [type |-> "RuntimeError", args |-> args]

\* the sequences of length 0..n over S
SeqsUpTo(S, n) == UNION {[1..k -> S] : k \in 0..n}

\* cum_idx without shortening cumulants that are as long as online_sf
usfa_cum_idx_unshortened(cumulants_T, data_T) ==
  CASE cumulants_T = data_T -> [raised |-> FALSE, cum_idx |-> data_T]
    [] cumulants_T = data_T - 1 -> [raised |-> FALSE, cum_idx |-> cumulants_T]
    [] cumulants_T > data_T ->
         [raised |-> TRUE, exc |-> RuntimeError(<<"This should never happen?">>)]
    [] OTHER -> [raised |-> TRUE, exc |-> NotImplementedError]

\* the if/elif chain on cumulants_T and data_T
usfa_cum_idx(cumulants_T, data_T) ==
  CASE cumulants_T = data_T -> [raised |-> FALSE, cum_idx |-> data_T - 1]
    [] cumulants_T = data_T - 1 -> [raised |-> FALSE, cum_idx |-> cumulants_T]
    [] cumulants_T > data_T ->
         [raised |-> TRUE, exc |-> RuntimeError(<<"This should never happen?">>)]
    [] OTHER -> [raised |-> TRUE, exc |-> NotImplementedError]

\* what sf_loss hands to the TD computation for one batch element
usfa_sf_loss_args(online_sf, online_actions, target_sf, selector_actions, cumulants, discounts, cum_idx) ==
  [online_sf |-> SliceTo(online_sf, -1),
   online_actions |-> SliceTo(online_actions, -1),
   target_sf |-> SubSeq(target_sf, 2, Len(target_sf)),
   selector_actions |-> SubSeq(selector_actions, 2, Len(selector_actions)),
   cumulants |-> SliceTo(cumulants, cum_idx),
   discounts |-> SliceTo(discounts, -1)]

\* the trajectory arrays of one batch element, each row named by its index
Rows(n) == Vec([t \in 1..n |-> t])

UsfaInit ==
  /\ u_pc = "ready"
  /\ \E data_T \in 1..(MaxT + 1) :
       /\ u_data = [online_sf |-> Rows(data_T), action |-> Rows(data_T),
                    discount |-> Rows(data_T)]
       /\ u_cumulants \in SeqsUpTo({0, 1}, data_T + 1)
  /\ u_args = <<>>
  /\ u_exc = NoException

\* UsfaLossFn.error up to the call of the TD computation
CallUsfaError ==
  /\ u_pc = "ready"
  /\ LET idx == usfa_cum_idx(Len(u_cumulants), Len(u_data.online_sf))
     IN  IF idx.raised
           THEN u_pc' = "raised" /\ u_exc' = idx.exc /\ u_args' = u_args
           ELSE /\ u_pc' = "done"
                /\ u_args' = usfa_sf_loss_args(u_data.online_sf, u_data.action,
                                 u_data.online_sf, u_data.online_sf,
                                 u_cumulants, u_data.discount, idx.cum_idx)
                /\ u_exc' = u_exc
  /\ UNCHANGED <<u_data, u_cumulants>>

(***************************************************************************)
(* The discounts the three sub-losses of MtrlDynaUsfaLossFn bootstrap with *)
(* (one batch element)                                                     *)
(***************************************************************************)
\* ontask_loss: discounts = (data.discount * self.discount)
ontask_discounts(self, discount) ==
  Vec([t \in 1..Len(discount) |-> RMul(RInt(discount[t]), self.discount)])

\* model_loss: discounts = data.discount*self.discount
model_loss_discounts(self, discount) ==
  Vec([t \in 1..Len(discount) |-> RMul(RInt(discount[t]), self.discount)])

\* error, Dyna block: discounts = data.discount, vmapped over (t, b) into
\* multitask_dyna_loss and from there into sf_dyna_td as discounts_
dyna_discounts(self, discount) ==
  Vec([t \in 1..Len(discount) |-> RInt(discount[t])])

\* one_step_sf_td: rlax.double_q_learning vmapped over the cumulants,
\* r + discount * next_sf[argmax q_values] - sf[action] for each cumulant
one_step_sf_td(sf, action, next_state_features, next_sf, discounts, q_values) ==
  LET selected == ArgMax(q_values)
  IN  Vec([c \in 1..Len(next_state_features) |->
             RSub(RAdd(next_state_features[c],
                       RMul(discounts, next_sf[selected][c])),
                  sf[action][c])])

\* what the model and the SF networks give sf_dyna_td at step t for one
\* sampled task and one imagined action
DynaStep(t, v) ==
  [sf |-> Vec([a \in 1..NumActions |-> Vec([c \in 1..NumCumulants |->
            RInt((t + a + c + v) % 3)])]),
   action |-> ((t + v) % NumActions) + 1,
   next_state_features |-> Vec([c \in 1..NumCumulants |-> RInt((t + c + v) % 2)]),
   next_sf |-> Vec([a \in 1..NumActions |-> Vec([c \in 1..NumCumulants |->
                 RInt(((2 * a + c + t + v) % 3) + 1)])]),
   q_values |-> Vec([a \in 1..NumActions |-> RInt((a + t + v) % 2)])]

\* the agent's discount factor
DiscountFactors == {RHalf, ROne}

BootstrapInit ==
  /\ b_pc = "ready"
  /\ b_self \in [discount : DiscountFactors]
  /\ \E T \in 1..MaxT, v \in Variants :
       /\ b_discount \in SeqsOfLen({0, 1}, T)
       /\ b_steps = Vec([t \in 1..T |-> DynaStep(t, v)])
  /\ b_out = <<>>

\* the discounts of the three sub-losses and the Dyna TD errors of one call
\* of error()
CallErrorDiscounts ==
  /\ b_pc = "ready"
  /\ b_pc' = "done"
  /\ LET dyna == dyna_discounts(b_self, b_discount)
     IN  b_out' =
           [ontask |-> ontask_discounts(b_self, b_discount),
            model |-> model_loss_discounts(b_self, b_discount),
            dyna |-> dyna,
            dyna_td |-> Vec([t \in 1..Len(b_discount) |->
               one_step_sf_td(b_steps[t].sf, b_steps[t].action,
                              b_steps[t].next_state_features,
                              b_steps[t].next_sf, dyna[t],
                              b_steps[t].q_values)])]
  /\ UNCHANGED <<b_self, b_discount, b_steps>>

(***************************************************************************)
(* The PRNG keys of one call of MtrlDynaUsfaLossFn.error.  A key is the    *)
(* path of splits that derived it from the key supplied; a random draw is  *)
(* recorded as the sampling site together with the key it consumed.        *)
(***************************************************************************)
\* split_key(key, N): keys = jax.random.split(key, num=N+1);
\* key_set = keys[1:]; key = keys[0]
split_key(key, N) ==
  [key |-> jax_random_split(key, N + 1)[1],
   key_set |-> Vec([i \in 1..N |-> Append(key, i + 1)])]

Draw(site, key) == [site |-> site, key |-> key]

\* sf_dyna_td(key) for the sampled task m at (t, b): the action sample and
\* the keys of the models and SF networks for the nactions + 1 candidates
sf_dyna_td_draws(key, t, b, m, nactions) ==
  LET n == nactions + 1
      s0 == jax_random_split(key, 2)
      k1 == split_key(s0[1], n)
      k2 == split_key(k1.key, n)
      k3 == split_key(k2.key, n)
      k4 == split_key(k3.key, n)
  IN  {Draw(<<"dyna", "sampled_actions", t, b, m>>, s0[2])}
        \cup {Draw(<<"dyna", "apply_model", t, b, m, i>>, k1.key_set[i]) : i \in 1..n}
        \cup {Draw(<<"dyna", "apply_target_model", t, b, m, i>>, k2.key_set[i]) : i \in 1..n}
        \cup {Draw(<<"dyna", "compute_sfs", t, b, m, i>>, k3.key_set[i]) : i \in 1..n}
        \cup {Draw(<<"dyna", "compute_target_sfs", t, b, m, i>>, k4.key_set[i]) : i \in 1..n}

\* multitask_dyna_loss(rng_key) at (t, b)
multitask_dyna_loss_draws(rng_key, t, b, ntasks, nactions) ==
  LET s0 == jax_random_split(rng_key, 2)
      k1 == split_key(s0[1], ntasks)
      k2 == split_key(k1.key, ntasks)
  IN  {Draw(<<"dyna", "sampled_tasks", t, b>>, s0[2])}
        \cup {Draw(<<"dyna", "task_sfs", t, b, m>>, k1.key_set[m]) : m \in 1..ntasks}
        \cup UNION {sf_dyna_td_draws(k2.key_set[m], t, b, m, nactions) : m \in 1..ntasks}

\* model_unroll(key, ...) from start state i of batch element b: the scan
\* splits the carried key once per simulation step
RECURSIVE model_unroll_draws(_, _, _, _, _)
model_unroll_draws(k, b, i, j, simulation_steps) ==
  IF j > simulation_steps THEN {}
  ELSE LET s0 == jax_random_split(k, 2)
       IN  {Draw(<<"model", "apply_model", b, i, j>>, s0[2])}
             \cup model_unroll_draws(s0[1], b, i, j + 1, simulation_steps)

\* model_loss(rng_key) for batch element b of a trajectory of T steps
model_loss_draws(self, rng_key, b, T) ==
  LET nstart == T - self.simulation_steps
      s0 == jax_random_split(rng_key, 2)
      rng1 == IF self.mask_zero_features THEN s0[1] ELSE rng_key
      k1 == split_key(rng1, nstart)
      k2 == split_key(k1.key, nstart * self.simulation_steps)
  IN  (IF self.mask_zero_features
         THEN {Draw(<<"model", "zero_entries_mask", b>>, s0[2])} ELSE {})
        \cup UNION {model_unroll_draws(k1.key_set[i], b, i, 1, self.simulation_steps)
                      : i \in 1..nstart}
        \cup {Draw(<<"model", "compute_sfs", b, i>>, k2.key_set[i])
               : i \in 1..(nstart * self.simulation_steps)}

\* error(key_grad): the keys handed to the Dyna loss at each (t, b) and to
\* the model loss of each batch element, and every draw made
error_keys(self, T, B, key_grad) ==
  LET dyna == enabled(self.dyna_coeff)
      k0 == split_key(key_grad, T * B)
      \* loss_keys.reshape(T, B, 2)
      loss_keys == Vec([t \in 1..T |-> Vec([b \in 1..B |->
                      k0.key_set[(t - 1) * B + b]])])
      key_grad1 == IF dyna THEN k0.key ELSE key_grad
      ntasks == min(self.max_tasks, self.n_tasks_dyna)
      nactions == min(self.n_actions_dyna, self.num_actions)
  IN  [loss_keys |-> IF dyna THEN loss_keys ELSE <<>>,
       \* rng_key=key_grad in functools.partial: the same for every b
       model_keys |-> IF enabled(self.model_coeff)
                        THEN Vec([b \in 1..B |-> key_grad1]) ELSE <<>>,
       draws |->
         (IF dyna
            THEN UNION {multitask_dyna_loss_draws(loss_keys[t][b], t, b,
                                                  ntasks, nactions)
                          : t \in 1..T, b \in 1..B}
            ELSE {})
         \cup (IF enabled(self.model_coeff)
                 THEN UNION {model_loss_draws(self, key_grad1, b, T) : b \in 1..B}
                 ELSE {})]

KeysInit ==
  /\ p_pc = "ready"
  /\ p_shape \in [T : 2..MaxT, B : 1..MaxB]
  /\ p_self \in [dyna_coeff : {0, 1}, model_coeff : {0, 1},
                  mask_zero_features : BOOLEAN,
                  n_tasks_dyna : 1..MaxTasks, max_tasks : {MaxTasks},
                  n_actions_dyna : 1..MaxActions, num_actions : {MaxActions},
                  simulation_steps : 1..(p_shape.T - 1)]
  /\ p_out = <<>>

\* error() called with the key <<>>
CallErrorKeys ==
  /\ p_pc = "ready"
  /\ p_pc' = "done"
  /\ p_out' = error_keys(p_self, p_shape.T, p_shape.B, <<>>)
  /\ UNCHANGED <<p_self, p_shape>>

(***************************************************************************)
(* QObserver: the evaluator's curriculum adjustment                         *)
(* (src/configs/imagination_trainer.py, class QObserver).  The fields of   *)
(* mental_blocks_cfg are the record q_cfg; rewards, bounds and thresholds  *)
(* are integers.                                                           *)
(***************************************************************************)
MaxBlocks == 3
MaxPressure == 2
MaxEpisodes == 3

\* self.period is an int or np.inf
np_inf == [inf |-> TRUE, n |-> 0]
PyPeriod(n) == [inf |-> FALSE, n |-> n]

\* idx % period for idx >= 0: idx % np.inf is idx
py_mod(idx, period) == IF period.inf THEN idx ELSE idx % period.n

RECURSIVE py_pow(_, _)
py_pow(b, e) == IF e = 0 THEN 1 ELSE b * py_pow(b, e - 1)

QObserver(period, evaluator) ==
  [period |-> PyPeriod(period), idx |-> -1, logging |-> TRUE,
   evaluator |-> evaluator]

\* wandb_log(d) with run = (wandb.run is not None): the fields of self after
wandb_log_keeps_logging(self, run) == self

wandb_log(self, run) ==
  IF self.logging /\ ~run
    THEN [self EXCEPT !.logging = FALSE, !.period = np_inf]
    ELSE self

episode_reward_lb(cfg) ==
  IF cfg.curriculum = PyNone \/ cfg.curriculum = PyInt(0)
    THEN cfg.episode_reward_lowerbound
    ELSE -(py_pow(cfg.episode_reward_lowerbound_factor, cfg.curriculum.value))

\* the locals cur_curriculum, episode_reward_threshold, up_pressure,
\* down_pressure as loaded from mental_blocks_cfg
curriculum_locals(cfg) ==
  [cur_curriculum |-> cfg.curriculum,
   episode_reward_threshold |-> cfg.episode_reward_threshold,
   up_pressure |-> cfg.up_pressure,
   down_pressure |-> cfg.down_pressure]

\* the branch of the if/elif chain that is taken, named by what it prints
curriculum_case_max_excluded(cfg, episode_reward) ==
  LET none == cfg.curriculum = PyNone
      cur == cfg.curriculum.value
      lb == episode_reward_lb(cfg)
      threshold == cfg.episode_reward_threshold
  IN  IF none THEN "no dynamic curriculum"
      ELSE IF episode_reward > lb /\ cur = 0
        THEN "continuing final stabalizing"
      ELSE IF episode_reward < threshold /\ cur = 2
        THEN "continuing easiest curriculum"
      ELSE IF lb < episode_reward /\ episode_reward < threshold
        THEN "continuing current curriculum"
      ELSE IF episode_reward < lb /\ cur = 0
        THEN "stop stabalizing"
      ELSE IF episode_reward < lb /\ cur > 2
        THEN "curriculum decreased"
      ELSE IF episode_reward > threshold /\ cur < cfg.max_blocks
        THEN "curriculum increased"
      ELSE IF episode_reward > threshold /\ cur > cfg.max_blocks
        THEN "start final stabalizing"
      ELSE "case not found"

curriculum_case(cfg, episode_reward) ==
  LET none == cfg.curriculum = PyNone
      cur == cfg.curriculum.value
      lb == episode_reward_lb(cfg)
      threshold == cfg.episode_reward_threshold
  IN  IF none THEN "no dynamic curriculum"
      ELSE IF episode_reward > lb /\ cur = 0
        THEN "continuing final stabalizing"
      ELSE IF episode_reward < threshold /\ cur = 2
        THEN "continuing easiest curriculum"
      ELSE IF lb < episode_reward /\ episode_reward < threshold
        THEN "continuing current curriculum"
      ELSE IF episode_reward < lb /\ cur = 0
        THEN "stop stabalizing"
      ELSE IF episode_reward < lb /\ cur > 2
        THEN "curriculum decreased"
      ELSE IF episode_reward > threshold /\ cur < cfg.max_blocks
        THEN "curriculum increased"
      ELSE IF episode_reward > threshold /\ cur = cfg.max_blocks
        THEN "start final stabalizing"
      ELSE "case not found"

\* elif episode_reward < episode_reward_lb and cur_curriculum==0
stop_stabalizing(cfg, l) ==
  LET down_pressure == l.down_pressure + 1
      enough == down_pressure >= cfg.down_pressure_threshold
  IN  [cur_curriculum |->
         IF enough THEN PyInt(cfg.max_blocks) ELSE l.cur_curriculum,
       episode_reward_threshold |->
         IF enough THEN cfg.threshold3 ELSE l.episode_reward_threshold,
       down_pressure |-> IF enough THEN 0 ELSE down_pressure,
       up_pressure |-> 0]

\* elif episode_reward < episode_reward_lb and cur_curriculum>2
curriculum_decreased_by_two(cfg, l) ==
  LET down_pressure == l.down_pressure + 1
      enough == down_pressure >= cfg.down_pressure_threshold
      cur == IF enough THEN l.cur_curriculum.value - 2
                       ELSE l.cur_curriculum.value
  IN  [cur_curriculum |-> PyInt(cur),
       episode_reward_threshold |->
         IF cur = 2 THEN cfg.threshold1
         ELSE IF cur > 3 THEN cfg.threshold3 ELSE cfg.threshold2,
       down_pressure |-> IF enough THEN 0 ELSE down_pressure,
       up_pressure |-> 0]

curriculum_decreased(cfg, l) ==
  LET down_pressure == l.down_pressure + 1
      enough == down_pressure >= cfg.down_pressure_threshold
      cur == IF enough THEN l.cur_curriculum.value - 1
                       ELSE l.cur_curriculum.value
  IN  [cur_curriculum |-> PyInt(cur),
       episode_reward_threshold |->
         IF cur = 2 THEN cfg.threshold1
         ELSE IF cur > 3 THEN cfg.threshold3 ELSE cfg.threshold2,
       down_pressure |-> IF enough THEN 0 ELSE down_pressure,
       up_pressure |-> 0]

\* elif episode_reward > episode_reward_threshold
\*      and cur_curriculum < mental_blocks_cfg.max_blocks
curriculum_increased_keeps_down_pressure(cfg, l) ==
  LET up_pressure == l.up_pressure + 1
      enough == up_pressure >= cfg.up_pressure_threshold
      cur == IF enough THEN l.cur_curriculum.value + 1
                       ELSE l.cur_curriculum.value
  IN  [cur_curriculum |-> PyInt(cur),
       episode_reward_threshold |->
         IF cur = 3 THEN cfg.threshold2 ELSE cfg.threshold3,
       up_pressure |-> IF enough THEN 0 ELSE up_pressure,
       down_pressure |-> l.down_pressure]

curriculum_increased(cfg, l) ==
  LET up_pressure == l.up_pressure + 1
      enough == up_pressure >= cfg.up_pressure_threshold
      cur == IF enough THEN l.cur_curriculum.value + 1
                       ELSE l.cur_curriculum.value
  IN  [cur_curriculum |-> PyInt(cur),
       episode_reward_threshold |->
         IF cur = 3 THEN cfg.threshold2 ELSE cfg.threshold3,
       up_pressure |-> IF enough THEN 0 ELSE up_pressure,
       down_pressure |-> 0]

\* elif episode_reward > episode_reward_threshold
\*      and cur_curriculum == mental_blocks_cfg.max_blocks
start_final_stabalizing(cfg, l) ==
  LET up_pressure == l.up_pressure + 1
      enough == up_pressure >= cfg.up_pressure_threshold
  IN  [cur_curriculum |-> IF enough THEN PyInt(0) ELSE l.cur_curriculum,
       episode_reward_threshold |->
         IF enough THEN cfg.threshold3 ELSE l.episode_reward_threshold,
       up_pressure |-> IF enough THEN 0 ELSE up_pressure,
       down_pressure |-> 0]

\* the locals after the branch named case has run
curriculum_step(cfg, case) ==
  LET l == curriculum_locals(cfg)
      cur == l.cur_curriculum.value
  IN  IF case = "no dynamic curriculum" THEN l
      ELSE IF case = "continuing final stabalizing"
        THEN [l EXCEPT !.episode_reward_threshold = cfg.threshold3,
                       !.up_pressure = 0, !.down_pressure = 0]
      ELSE IF case = "continuing easiest curriculum"
        THEN [l EXCEPT !.episode_reward_threshold = cfg.threshold1,
                       !.up_pressure = 0, !.down_pressure = 0]
      ELSE IF case = "continuing current curriculum"
        THEN [l EXCEPT !.episode_reward_threshold =
                          IF cur = 3 THEN cfg.threshold2 ELSE cfg.threshold3,
                       !.up_pressure = 0, !.down_pressure = 0]
      ELSE IF case = "stop stabalizing" THEN stop_stabalizing(cfg, l)
      ELSE IF case = "curriculum decreased" THEN curriculum_decreased(cfg, l)
      ELSE IF case = "curriculum increased" THEN curriculum_increased(cfg, l)
      ELSE start_final_stabalizing(cfg, l)

\* "update values in mental_blocks_cfg.py file to reflect changes"
update_values(cfg, l) ==
  [cfg EXCEPT !.curriculum = l.cur_curriculum,
              !.up_pressure = l.up_pressure,
              !.down_pressure = l.down_pressure,
              !.episode_reward_threshold = l.episode_reward_threshold]

\* what one pass through the curriculum logic saw
CurriculumUpdate(self, cfg, episode_reward, case) ==
  [idx |-> self.idx, episode_reward |-> episode_reward,
   episode_reward_lb |-> episode_reward_lb(cfg),
   before |-> curriculum_locals(cfg), case |-> case]

\* get_metrics() for an episode whose rewards sum to episode_reward:
\* the observer, the configuration module, the exception and the pass
\* through the curriculum logic (<<>> when it returned before it)
get_metrics(self, cfg, run, episode_reward) ==
  IF self.idx = 0 \/ ~(py_mod(self.idx, self.period) = 0)
    THEN [self |-> self, cfg |-> cfg, exc |-> NoException, update |-> <<>>]
  ELSE IF ~self.logging
    THEN [self |-> self, cfg |-> cfg, exc |-> NoException, update |-> <<>>]
  ELSE
    LET logged == wandb_log(self, run)
        case == curriculum_case(cfg, episode_reward)
        update == <<CurriculumUpdate(logged, cfg, episode_reward, case)>>
    IN  IF ~logged.evaluator
          THEN [self |-> logged, cfg |-> cfg, exc |-> NoException,
                update |-> <<>>]
        ELSE IF case = "case not found"
          THEN [self |-> logged, cfg |-> cfg, exc |-> ValueError,
                update |-> update]
        ELSE [self |-> logged,
              cfg |-> update_values(cfg, curriculum_step(cfg, case)),
              exc |-> NoException, update |-> update]

observe_first(self, cfg, run, episode_reward) ==
  LET counted == [self EXCEPT !.idx = self.idx + 1]
  IN  IF counted.idx > 0
        THEN get_metrics(counted, cfg, run, episode_reward)
        ELSE [self |-> counted, cfg |-> cfg, exc |-> NoException,
              update |-> <<>>]

\* the levels a dynamic curriculum takes
CurriculumLevels(max_blocks) == {0} \cup (2..max_blocks)

\* the lower bound in force at a level
LowerBoundAt(cfg, level) ==
  episode_reward_lb([cfg EXCEPT !.curriculum = PyInt(level)])

UpperThresholds(cfg) ==
  {cfg.threshold1, cfg.threshold2, cfg.threshold3,
   cfg.episode_reward_threshold}

\* episode rewards on, just below and just above every bound of cfg
EpisodeRewards(cfg) ==
  LET marks == {LowerBoundAt(cfg, level) :
                  level \in CurriculumLevels(cfg.max_blocks)}
               \cup UpperThresholds(cfg)
  IN  UNION {{m - 1, m, m + 1} : m \in marks}

QConfigs ==
  {cfg \in [curriculum : {PyNone} \cup {PyInt(l) : l \in 0..MaxBlocks},
            up_pressure : {0}, down_pressure : {0},
            episode_reward_threshold : 1..2,
            episode_reward_lowerbound : {-1, 2},
            episode_reward_lowerbound_factor : {2},
            threshold1 : {1}, threshold2 : 1..2, threshold3 : {2},
            max_blocks : 2..MaxBlocks,
            up_pressure_threshold : 1..MaxPressure,
            down_pressure_threshold : 1..MaxPressure] :
     /\ cfg.curriculum = PyNone
          \/ cfg.curriculum.value \in CurriculumLevels(cfg.max_blocks)
     /\ cfg.episode_reward_threshold
          \in {cfg.threshold1, cfg.threshold2, cfg.threshold3}}

QObserverInit ==
  /\ q_self \in {QObserver(period, evaluator) :
                   period \in 1..2, evaluator \in BOOLEAN}
  /\ q_run \in BOOLEAN
  /\ q_cfg \in QConfigs
  /\ q_last = <<>>
  /\ q_adjusts = 0
  /\ q_exc = NoException

\* an episode ends and the next begins: observe_first(state, timestep)
ObserveFirst ==
  /\ q_exc = NoException
  /\ q_self # <<>>
  /\ q_self.idx < MaxEpisodes
  /\ \E episode_reward \in EpisodeRewards(q_cfg) :
       LET r == observe_first(q_self, q_cfg, q_run, episode_reward)
       IN  /\ q_self' = r.self
           /\ q_cfg' = r.cfg
           /\ q_exc' = r.exc
           /\ q_last' = IF r.update = <<>> THEN q_last ELSE r.update
           /\ q_adjusts' = IF r.update # <<>> /\ r.exc = NoException
                             THEN q_adjusts + 1 ELSE q_adjusts
  /\ UNCHANGED q_run

(***************************************************************************)
(* Specifications                                                          *)
(***************************************************************************)
MaskIdle ==
  /\ m_pc = "idle" /\ m_discount = <<>> /\ m_include_final = FALSE
  /\ m_mask = <<>>
WeightIdle ==
  /\ w_pc = "idle" /\ w_self = <<>> /\ w_td_error = <<>> /\ w_task_w = <<>>
  /\ w_out = <<>> /\ w_exc = NoException

ErrorIdle ==
  /\ e_pc = "idle" /\ e_self = <<>> /\ e_data = <<>> /\ e_nets = <<>>
  /\ e_calls = {} /\ e_td_fn = NoTdFn /\ e_out = NoOut /\ e_direct = NotCalled
  /\ e_alt = NotCalled
  /\ e_exc = NoException

TdIdle ==
  /\ t_pc = "idle" /\ t_self = <<>> /\ t_args = <<>> /\ t_out = <<>>
  /\ t_exc = NoException

ModelLossIdle ==
  /\ k_pc = "idle" /\ k_self = <<>> /\ k_state = <<>> /\ k_start = <<>>
  /\ k_exc = NoException

DynaIdle ==
  /\ d_pc = "idle" /\ d_self = <<>> /\ d_q_values = <<>>
  /\ d_sampled_tasks = <<>> /\ d_sampled_actions = <<>>

ComputeLossesIdle ==
  /\ c_pc = "idle" /\ c_self = <<>> /\ c_args = <<>> /\ c_out = <<>>
  /\ c_alt = NotCalled

HasKeyIdle == h_self = <<>> /\ h_calls = <<>> /\ h_to = <<>>

WandbIdle ==
  g_self = <<>> /\ g_calls = <<>> /\ g_wandb = <<>>

ActorIdle ==
  /\ a_pc = "idle" /\ a_config = <<>> /\ a_evaluation = FALSE
  /\ a_state = NoActorState /\ a_first = NotCalled /\ a_calls = <<>>
  /\ a_extras = NotCalled /\ a_exc = NoException

UsfaIdle ==
  /\ u_pc = "idle" /\ u_data = <<>> /\ u_cumulants = <<>> /\ u_args = <<>>
  /\ u_exc = NoException

BootstrapIdle ==
  /\ b_pc = "idle" /\ b_self = <<>> /\ b_discount = <<>> /\ b_steps = <<>>
  /\ b_out = <<>>

KeysIdle ==
  p_pc = "idle" /\ p_self = <<>> /\ p_shape = <<>> /\ p_out = <<>>

QObserverIdle ==
  q_self = <<>> /\ q_run = FALSE /\ q_cfg = <<>> /\ q_last = <<>> /\ q_adjusts = 0 /\ q_exc = NoException

LaterIdle == WandbIdle /\ ActorIdle /\ UsfaIdle /\ BootstrapIdle /\ KeysIdle /\ QObserverIdle

EarlierIdle ==
  /\ MaskIdle /\ WeightIdle /\ ErrorIdle /\ TdIdle /\ ModelLossIdle
  /\ DynaIdle /\ ComputeLossesIdle /\ HasKeyIdle

OthersIdle ==
  /\ TdIdle /\ ModelLossIdle /\ DynaIdle /\ ComputeLossesIdle /\ HasKeyIdle
  /\ LaterIdle

InitMask == MaskInit /\ WeightIdle /\ ErrorIdle /\ OthersIdle
NextMask == CallMakeEpisodeMask /\ UNCHANGED <<wvars, evars, xvars>>
SpecMask == InitMask /\ [][NextMask]_vars

InitWeight == WeightInit /\ MaskIdle /\ ErrorIdle /\ OthersIdle
NextWeight == CallTaskWeightedSFLossFn /\ UNCHANGED <<mvars, evars, xvars>>
SpecWeight == InitWeight /\ [][NextWeight]_vars

Init == ErrorInit /\ MaskIdle /\ WeightIdle /\ OthersIdle
Next ==
  \/ CallError /\ UNCHANGED <<mvars, wvars, xvars>>
  \/ CallOntaskLoss /\ UNCHANGED <<mvars, wvars, xvars>>
Spec == Init /\ [][Next]_vars

\* error() with the on-task term alone, on a batch and on the batch with one
\* entry changed
InitPerturb ==
  /\ Init
  /\ e_self.task_coeff > 0 /\ e_self.dyna_coeff = 0 /\ e_self.model_coeff = 0
NextPerturb ==
  \/ CallError /\ UNCHANGED <<mvars, wvars, xvars>>
  \/ CallErrorPerturbed /\ UNCHANGED <<mvars, wvars, xvars>>
SpecPerturb == InitPerturb /\ [][NextPerturb]_vars

\* the on-task loss alone on batches of at most two episodes, then again with
\* one entry of online_sf changed
InitPerturbSf ==
  /\ InitPerturb
  /\ Len(e_data.discount[1]) <= 2
NextPerturbSf ==
  \/ CallError /\ UNCHANGED <<mvars, wvars, xvars>>
  \/ CallErrorSfPerturbed /\ UNCHANGED <<mvars, wvars, xvars>>
SpecPerturbSf == InitPerturbSf /\ [][NextPerturbSf]_vars

\* the objects that fail when called: SFTDError and TaskWeightedSFLossFn,
\* each with a known or an unknown mode
UnknownModeInit ==
  /\ w_pc = "ready"
  /\ w_self \in [weight_type : WeightTypes, combination : Combinations,
                 sum_cumulants : {TRUE}]
  /\ w_td_error = <<RInt(1), RInt(2)>> /\ w_task_w = <<RHalf, RInt(-1)>>
  /\ w_out = <<>>
  /\ w_exc = NoException
InitTd ==
  /\ TdInit /\ UnknownModeInit /\ MaskIdle /\ ErrorIdle /\ ModelLossIdle
  /\ DynaIdle /\ ComputeLossesIdle /\ HasKeyIdle /\ LaterIdle
NextTd ==
  \/ CallSFTDError
       /\ UNCHANGED <<mvars, wvars, evars, kvars, dvars, cvars, hvars, yvars>>
  \/ CallTaskWeightedSFLossFn
       /\ UNCHANGED <<mvars, evars, tvars, kvars, dvars, cvars, hvars, yvars>>
SpecTd == InitTd /\ [][NextTd]_vars

InitModelLoss ==
  /\ ModelLossInit /\ MaskIdle /\ WeightIdle /\ ErrorIdle /\ TdIdle /\ DynaIdle
  /\ ComputeLossesIdle /\ HasKeyIdle /\ LaterIdle
NextModelLoss ==
  CallModelLoss /\ UNCHANGED <<mvars, wvars, evars, tvars, dvars, cvars, hvars, yvars>>
SpecModelLoss == InitModelLoss /\ [][NextModelLoss]_vars

InitDyna ==
  /\ DynaInit /\ MaskIdle /\ WeightIdle /\ ErrorIdle /\ TdIdle /\ ModelLossIdle
  /\ ComputeLossesIdle /\ HasKeyIdle /\ LaterIdle
NextDyna ==
  CallDynaSampling /\ UNCHANGED <<mvars, wvars, evars, tvars, kvars, cvars, hvars, yvars>>
SpecDyna == InitDyna /\ [][NextDyna]_vars

InitComputeLosses ==
  /\ ComputeLossesInit /\ MaskIdle /\ WeightIdle /\ ErrorIdle /\ TdIdle
  /\ ModelLossIdle /\ DynaIdle /\ HasKeyIdle /\ LaterIdle
NextComputeLosses ==
  \/ CallComputeLosses
       /\ UNCHANGED <<mvars, wvars, evars, tvars, kvars, dvars, hvars, yvars>>
  \/ CallComputeLossesPerturbed
       /\ UNCHANGED <<mvars, wvars, evars, tvars, kvars, dvars, hvars, yvars>>
SpecComputeLosses == InitComputeLosses /\ [][NextComputeLosses]_vars

InitHasKey ==
  /\ HasKeyInit /\ MaskIdle /\ WeightIdle /\ ErrorIdle /\ TdIdle
  /\ ModelLossIdle /\ DynaIdle /\ ComputeLossesIdle /\ LaterIdle
NextHasKey ==
  HasKeyFilter_write
    /\ UNCHANGED <<mvars, wvars, evars, tvars, kvars, dvars, cvars, yvars>>
SpecHasKey == InitHasKey /\ [][NextHasKey]_vars

InitWandb ==
  WandbInit /\ EarlierIdle /\ ActorIdle /\ UsfaIdle /\ BootstrapIdle /\ KeysIdle /\ QObserverIdle
NextWandb ==
  \/ LoggerWrite /\ UNCHANGED <<zvars, avars, uvars, bvars, pvars, qvars>>
SpecWandb == InitWandb /\ [][NextWandb]_vars

InitActor ==
  ActorInit /\ EarlierIdle /\ WandbIdle /\ UsfaIdle /\ BootstrapIdle /\ KeysIdle /\ QObserverIdle
NextActor ==
  \/ GetActorCore /\ UNCHANGED <<zvars, gvars, uvars, bvars, pvars, qvars>>
  \/ CallActorInit /\ UNCHANGED <<zvars, gvars, uvars, bvars, pvars, qvars>>
  \/ CallSelectAction /\ UNCHANGED <<zvars, gvars, uvars, bvars, pvars, qvars>>
  \/ CallGetExtras /\ UNCHANGED <<zvars, gvars, uvars, bvars, pvars, qvars>>
SpecActor == InitActor /\ [][NextActor]_vars

InitUsfa ==
  UsfaInit /\ EarlierIdle /\ WandbIdle /\ ActorIdle /\ BootstrapIdle /\ KeysIdle /\ QObserverIdle
NextUsfa ==
  \/ CallUsfaError /\ UNCHANGED <<zvars, gvars, avars, bvars, pvars, qvars>>
SpecUsfa == InitUsfa /\ [][NextUsfa]_vars

InitBootstrap ==
  BootstrapInit /\ EarlierIdle /\ WandbIdle /\ ActorIdle /\ UsfaIdle /\ KeysIdle /\ QObserverIdle
NextBootstrap ==
  \/ CallErrorDiscounts /\ UNCHANGED <<zvars, gvars, avars, uvars, pvars, qvars>>
SpecBootstrap == InitBootstrap /\ [][NextBootstrap]_vars

InitKeys ==
  KeysInit /\ EarlierIdle /\ WandbIdle /\ ActorIdle /\ UsfaIdle /\ BootstrapIdle /\ QObserverIdle
NextKeys ==
  \/ CallErrorKeys /\ UNCHANGED <<zvars, gvars, avars, uvars, bvars, qvars>>
SpecKeys == InitKeys /\ [][NextKeys]_vars

InitQObserver ==
  QObserverInit /\ EarlierIdle /\ WandbIdle /\ ActorIdle /\ UsfaIdle /\ BootstrapIdle /\ KeysIdle
NextQObserver ==
  \/ ObserveFirst /\ UNCHANGED <<zvars, gvars, avars, uvars, bvars, pvars>>
SpecQObserver == InitQObserver /\ [][NextQObserver]_vars

(***************************************************************************)
(* C1: for every discount of shape [T,B] with T >= 2, make_episode_mask   *)
(* returns two rows of ones followed by discount[:-2] when include_final  *)
(* and one row of ones followed by discount[:-1] otherwise; the result    *)
(* has exactly T rows, and column b of the result is what the function    *)
(* returns for column b of discount alone.                                 *)
(***************************************************************************)
C1_MaskConvention ==
  (m_pc = "done" /\ Len(m_discount) >= 2) =>
    LET T == Len(m_discount)
        B == Len(m_discount[1])
    IN  /\ Len(m_mask) = T
        /\ \A t \in 1..T : \A b \in 1..B :
             m_mask[t][b] =
               IF m_include_final
                 THEN (IF t <= 2 THEN 1 ELSE m_discount[t - 2][b])
                 ELSE (IF t <= 1 THEN 1 ELSE m_discount[t - 1][b])
        /\ \A b \in 1..B :
             Column(m_mask, b)
               = make_episode_mask(Column(m_discount, b), m_include_final)

C1_Witness ==
  /\ m_pc = "done" /\ m_include_final
  /\ Len(m_discount) = 3 /\ Len(m_discount[1]) = 2
  /\ m_discount = <<<<1, 0>>, <<0, 1>>, <<0, 0>>>>
  /\ m_mask = <<<<1, 1>>, <<1, 1>>, <<1, 0>>>>

(***************************************************************************)
(* C2: for the single trajectory with discount [1,1,1,0,0]                *)
(* make_episode_mask returns [1,1,1,0,0] with include_final=False and     *)
(* [1,1,1,1,0] with include_final=True.                                    *)
(***************************************************************************)
Traj(s) == Vec([i \in 1..Len(s) |-> <<s[i]>>])

C2_Original ==
  (m_pc = "done" /\ m_discount = Traj(<<1, 1, 1, 0, 0>>)) =>
    m_mask = IF m_include_final THEN Traj(<<1, 1, 1, 1, 0>>)
                                ELSE Traj(<<1, 1, 1, 0, 0>>)

\* C2 as amended: the masks are [1,1,1,1,0] (include_final=False) and
\* [1,1,1,1,1] (include_final=True).
C2_Amended ==
  (m_pc = "done" /\ m_discount = Traj(<<1, 1, 1, 0, 0>>)) =>
    m_mask = IF m_include_final THEN Traj(<<1, 1, 1, 1, 1>>)
                                ELSE Traj(<<1, 1, 1, 1, 0>>)

C2_Witness ==
  /\ m_pc = "done" /\ m_discount = Traj(<<1, 1, 1, 0, 0>>)
  /\ ~m_include_final
  /\ m_mask = Traj(<<1, 1, 1, 1, 0>>)

(***************************************************************************)
(* C10: with weight_type='reg' and combination='loss' the task-weighted   *)
(* loss is the sum over cumulants c of task[c] * 0.5 * td_error[c]^2;     *)
(* td_error=[1,2], task=[0.5,-1] gives -1.75.                              *)
(***************************************************************************)
C10_RegLoss ==
  (w_pc = "done" /\ w_self.weight_type = "reg" /\ w_self.combination = "loss")
    =>
    /\ w_out[1] = RSumSeq(Vec([c \in 1..Len(w_td_error) |->
                    RMul(w_task_w[c],
                         RMul(RHalf, RMul(w_td_error[c], w_td_error[c])))]))
    /\ (w_td_error = <<RInt(1), RInt(2)>> /\ w_task_w = <<RHalf, RInt(-1)>>)
         => w_out[1] = Rat(-7, 4)

C10_Witness ==
  /\ w_pc = "done" /\ w_self.weight_type = "reg" /\ w_self.combination = "loss"
  /\ w_td_error = <<RInt(1), RInt(2)>> /\ w_task_w = <<RHalf, RInt(-1)>>
  /\ w_out[1] = Rat(-7, 4)

(***************************************************************************)
(* C11: the per-cumulant weight is task[c] in mode 'reg', |task[c]| in     *)
(* mode 'mag', and in mode 'indicator' 1 where |task[c]| < 1e-5 and 0      *)
(* elsewhere; so in 'indicator' mode the task-weighted loss is the loss of *)
(* the cumulants with |task[c]| < 1e-5 alone: the TD error of a cumulant   *)
(* whose task weight is not (near-)zero contributes nothing.               *)
(***************************************************************************)
C11_Weight(weight_type, x) ==
  CASE weight_type = "reg" -> x
    [] weight_type = "mag" -> IF RLt(x, RZero) THEN RSub(RZero, x) ELSE x
    [] weight_type = "indicator" ->
         IF RLt(x, Rat(1, 100000)) /\ RLt(Rat(-1, 100000), x) THEN ROne ELSE RZero

\* the task-weighted loss of td under the weights w
C11_Loss(combination, td, w) ==
  IF combination = "td"
    THEN RMul(RHalf, RMul(RSumSeq(Vec([c \in 1..Len(td) |-> RMul(td[c], w[c])])),
                          RSumSeq(Vec([c \in 1..Len(td) |-> RMul(td[c], w[c])]))))
    ELSE RSumSeq(Vec([c \in 1..Len(td) |->
                    RMul(RMul(RHalf, RMul(td[c], td[c])), w[c])]))

\* td_error with the cumulants whose task weight is not near zero removed
C11_NearZeroOnly ==
  Vec([c \in 1..Len(w_td_error) |->
     IF RLt(w_task_w[c], Rat(1, 100000)) /\ RLt(Rat(-1, 100000), w_task_w[c])
       THEN w_td_error[c] ELSE RZero])

C11_WeightModes ==
  w_pc = "done" =>
    /\ w_out[1] = C11_Loss(w_self.combination, w_td_error,
                    Vec([c \in 1..Len(w_task_w) |->
                           C11_Weight(w_self.weight_type, w_task_w[c])]))
    /\ w_self.weight_type = "indicator" =>
         w_out[1] = C11_Loss(w_self.combination, C11_NearZeroOnly,
                             Vec([c \in 1..Len(w_task_w) |-> ROne]))

C11_Witness ==
  /\ w_pc = "done" /\ w_self.weight_type = "indicator"
  /\ w_self.combination = "loss"
  /\ w_td_error = <<RInt(2), RInt(1)>> /\ w_task_w = <<RInt(1), NearZeroTask>>
  /\ w_out[1] = RHalf

(***************************************************************************)
(* C12: the unweighted loss is 0.5 * td_error[c]^2 summed over the         *)
(* cumulants when sum_cumulants is true and averaged over them when it is  *)
(* false; TD errors of opposite sign on different cumulants do not cancel: *)
(* td_error = [1,-1] gives a strictly positive unweighted loss.            *)
(***************************************************************************)
C12_SquaredErrors ==
  RSumSeq(Vec([c \in 1..Len(w_td_error) |->
             RMul(RHalf, RMul(w_td_error[c], w_td_error[c]))]))

C12_Original ==
  w_pc = "done" =>
    /\ w_out[2] = IF w_self.sum_cumulants
                    THEN C12_SquaredErrors
                    ELSE RDiv(C12_SquaredErrors, RInt(Len(w_td_error)))
    /\ w_td_error = <<RInt(1), RInt(-1)>> => RLt(RZero, w_out[2])

(***************************************************************************)
(* C13: an unknown loss_fn (SFTDError), weight_type or combination         *)
(* (TaskWeightedSFLossFn) is fatal when the object is called: the object   *)
(* is constructed with the unknown value, the call raises and returns no   *)
(* TD error or loss, and the exception raised names the offending field    *)
(* and its value.                                                          *)
(***************************************************************************)
\* the exception carries the field name and the value among its arguments
C13_Names(exc, field, value) ==
  \E i \in 1..Len(exc.args) : exc.args[i] = <<field, value>>

C13_Original ==
  /\ t_pc # "ready" =>
       IF t_self.loss_fn \notin {"qlearning", "qlambda"}
         THEN /\ t_pc = "raised" /\ t_out = <<>>
              /\ C13_Names(t_exc, "loss_fn", t_self.loss_fn)
         ELSE t_pc = "done"
  /\ w_pc # "ready" =>
       IF w_self.weight_type \notin {"reg", "mag", "indicator"}
         THEN /\ w_pc = "raised" /\ w_out = <<>>
              /\ C13_Names(w_exc, "weight_type", w_self.weight_type)
         ELSE IF w_self.combination \notin {"td", "loss"}
           THEN /\ w_pc = "raised" /\ w_out = <<>>
                /\ C13_Names(w_exc, "combination", w_self.combination)
           ELSE w_pc = "done"

(***************************************************************************)
(* Shorthands for the claims about MtrlDynaUsfaLossFn.error                *)
(***************************************************************************)
DataT == Len(e_data.discount)
DataB == Len(e_data.discount[1])
TotalLossKey == <<"", "0.total_loss">>
Namespaces(metrics) == {k[1] : k \in DOMAIN metrics}
EpisodeMask == make_episode_mask(e_data.discount, FALSE)
\* the [T,B] TD error and the [B] loss of the Dyna term on the current batch
DynaTdError ==
  NpArr2(Vec([t \in 1..DataT |-> Vec([b \in 1..DataB |->
    multitask_dyna_loss(e_self, e_nets.dyna_td_errors[t][b],
                        e_nets.dyna_tasks[t][b]).td_errors])]), DataB)
DynaBatchLoss ==
  NpArr1(episode_mean(Vec([t \in 1..DataT |-> Vec([b \in 1..DataB |->
    multitask_dyna_loss(e_self, e_nets.dyna_td_errors[t][b],
                        e_nets.dyna_tasks[t][b]).batch_loss])]), EpisodeMask))
ModelBatchLoss ==
  NpArr1(Vec([b \in 1..DataB |-> model_loss(e_self, DataT, e_nets.model[b]).total_loss]))
\* the entries of a loss array that belong to batch element b
LossOf(loss, b) ==
  IF Len(loss.shape) = 1 THEN <<loss.val[b]>>
  ELSE Vec([t \in 1..Len(loss.val) |-> loss.val[t][b]])
AllPositive == /\ e_self.task_coeff > 0 /\ e_self.dyna_coeff > 0
               /\ e_self.model_coeff > 0

C4_Original ==
  e_pc = "returned" =>
    /\ e_out.loss.shape = <<DataB>>
    /\ e_out.metrics[TotalLossKey].shape = <<DataB>>

C6_ShortCircuit ==
  /\ e_pc \in {"returned", "raised"} =>
       /\ "ontask_loss" \in e_calls => e_self.task_coeff > 0
       /\ "multitask_dyna_loss" \in e_calls => e_self.dyna_coeff > 0
       /\ "model_loss" \in e_calls => e_self.model_coeff > 0
  /\ e_pc = "returned" =>
       /\ e_self.task_coeff > 0 => "ontask_loss" \in e_calls
       /\ e_self.dyna_coeff > 0 => "multitask_dyna_loss" \in e_calls
       /\ e_self.model_coeff > 0 => "model_loss" \in e_calls
       /\ e_self.task_coeff <= 0 => "1.online." \notin Namespaces(e_out.metrics)
       /\ e_self.dyna_coeff <= 0 => "2.dyna." \notin Namespaces(e_out.metrics)
       /\ e_self.model_coeff <= 0 => "3.model." \notin Namespaces(e_out.metrics)
       /\ TotalLossKey \in DOMAIN e_out.metrics
  /\ (e_pc = "returned" /\ (e_self.task_coeff > 0 => e_direct.called)) =>
       e_out.loss =
         NpAdd(NpAdd(NpAdd(NpZeros1(DataB),
                 IF e_self.dyna_coeff > 0
                   THEN NpScale(DynaBatchLoss, RInt(e_self.dyna_coeff))
                   ELSE NpZeros1(DataB)),
                 IF e_self.task_coeff > 0
                   THEN NpScale(e_direct.batch_loss, RInt(e_self.task_coeff))
                   ELSE NpZeros1(DataB)),
                 IF e_self.model_coeff > 0
                   THEN NpScale(ModelBatchLoss, RInt(e_self.model_coeff))
                   ELSE NpZeros1(DataB))

C6_Witness ==
  /\ e_pc = "returned" /\ e_direct.called
  /\ e_self.task_coeff > 0 /\ e_self.dyna_coeff = 0 /\ e_self.model_coeff = 0
  /\ e_calls = {"ontask_loss"}
  /\ Namespaces(e_out.metrics) = {"", "1.online."}
  /\ \E t \in 1..(DataT - 1) : \E b \in 1..DataB : e_out.loss.val[t][b] # RZero

(***************************************************************************)
(* C7: with dyna_coeff = 0 and model_coeff = 0 and any task_coeff > 0,    *)
(* error() returns the same total loss as ontask_loss called directly on  *)
(* the same inputs, and its metrics keys are ontask_loss's keys under the *)
(* on-task namespace plus the total-loss key.                              *)
(***************************************************************************)
C7_Case ==
  /\ e_pc = "returned" /\ e_direct.called
  /\ e_self.dyna_coeff = 0 /\ e_self.model_coeff = 0 /\ e_self.task_coeff > 0

C7_Keys ==
  DOMAIN e_out.metrics
    = {<<"1.online.", k>> : k \in DOMAIN e_direct.metrics} \cup {TotalLossKey}

C7_Original == C7_Case => (e_out.loss = e_direct.batch_loss /\ C7_Keys)

\* C7 as amended: the total loss is task_coeff times the loss ontask_loss
\* returns (the same loss when task_coeff = 1); the keys are as claimed.
C7_Amended ==
  C7_Case =>
    /\ e_out.loss.shape = e_direct.batch_loss.shape
    /\ \A t \in 1..(DataT - 1) : \A b \in 1..DataB :
         e_out.loss.val[t][b]
           = RMul(RInt(e_self.task_coeff), e_direct.batch_loss.val[t][b])
    /\ e_self.task_coeff = 1 => e_out.loss = e_direct.batch_loss
    /\ C7_Keys

C7_Witness ==
  /\ C7_Case /\ e_self.task_coeff = 2
  /\ \E t \in 1..(DataT - 1) : \E b \in 1..DataB :
       /\ e_direct.batch_loss.val[t][b] # RZero
       /\ e_out.loss.val[t][b] = RMul(RInt(2), e_direct.batch_loss.val[t][b])

(***************************************************************************)
(* C8: the n-step horizon of the on-task TD error is the configured       *)
(* bootstrap_n: the SFTDError engine ontask_loss applies bootstraps       *)
(* bootstrap_n steps ahead.                                                *)
(***************************************************************************)
\* the engine the claim describes: SFTDError(bootstrap_n=self.bootstrap_n, ...)
C8_ClaimedTdFn == [bootstrap_n |-> e_self.bootstrap_n, loss_fn |-> e_self.loss_fn]

C8_Original ==
  (e_pc = "returned" /\ e_td_fn.built) =>
    /\ e_td_fn.bootstrap_n = e_self.bootstrap_n
    /\ e_direct.called =>
         e_direct.td_errors
           = ontask_loss_with(e_self, e_data, EpisodeMask, C8_ClaimedTdFn).td_errors
(***************************************************************************)
(* C9: the on-task loss of a batch element is the episode-masked average  *)
(* over time of weighted_coeff * task-weighted loss + unweighted_coeff *  *)
(* unweighted loss; a step whose episode-mask entry is 0 contributes      *)
(* nothing, so changing a cumulant or an action at a masked step leaves   *)
(* the loss returned for that batch element unchanged.                     *)
(***************************************************************************)
C9_MaskedMean ==
  LET direct == ontask_loss(e_self, e_data, EpisodeMask)
  IN  NpScale(NpArr1(episode_mean(direct.batch_loss.val, DropLast(EpisodeMask, 1))),
              RInt(e_self.task_coeff))

C9_Original ==
  /\ (e_pc = "returned" /\ DataT > 1) => e_out.loss = C9_MaskedMean
  /\ (e_pc = "returned" /\ e_alt.called
        /\ EpisodeMask[e_alt.pert.t][e_alt.pert.b] = 0) =>
       LossOf(e_alt.loss, e_alt.pert.b) = LossOf(e_out.loss, e_alt.pert.b)

(***************************************************************************)
(* C14: error() called with T <= 1 while task_coeff > 0 fails with an      *)
(* assertion error and returns no (td_error, loss, metrics), whatever      *)
(* dyna_coeff and model_coeff are; with T >= 2 that check never fails.     *)
(***************************************************************************)
C14_OntaskAssertion == AssertionError(<<"need at least 2 state for this">>)

C14_TwoTimesteps ==
  e_pc \in {"returned", "raised"} =>
    /\ (DataT <= 1 /\ e_self.task_coeff > 0) =>
         /\ e_pc = "raised" /\ e_exc.type = "AssertionError"
         /\ e_out = NoOut
    /\ DataT >= 2 => e_exc # C14_OntaskAssertion

C14_Witness ==
  /\ e_pc = "raised" /\ DataT = 1 /\ AllPositive
  /\ e_exc = C14_OntaskAssertion
  /\ e_out = NoOut

(***************************************************************************)
(* C15: model_loss fails (assertion) iff simulation_steps >= the           *)
(* trajectory length len(online_preds.state); for every accepted           *)
(* simulation_steps k (0 <= k < length) the model is unrolled from exactly *)
(* length - k start states: the trajectory with its last k steps removed.  *)
(***************************************************************************)
C15_Original ==
  k_pc # "ready" =>
    /\ k_pc = "raised" <=> k_self.simulation_steps >= Len(k_state)
    /\ k_pc = "unrolled" =>
         /\ Len(k_start) = Len(k_state) - k_self.simulation_steps
         /\ k_start = SubSeq(k_state, 1, Len(k_state) - k_self.simulation_steps)

(***************************************************************************)
(* Shorthands for the claims about the Dyna samples                        *)
(***************************************************************************)
NumTrainTasks == Len(d_q_values)
NumDynaActions == Len(d_q_values[1])
\* M = min(n_tasks_dyna, N) and K = min(n_actions_dyna, A)
DynaM ==
  IF d_self.n_tasks_dyna <= NumTrainTasks THEN d_self.n_tasks_dyna
  ELSE NumTrainTasks
DynaK ==
  IF d_self.n_actions_dyna <= NumDynaActions THEN d_self.n_actions_dyna
  ELSE NumDynaActions
PairwiseDistinct(x, n) == \A i, j \in 1..n : x[i] = x[j] => i = j

(***************************************************************************)
(* C16: Dyna sampling is capped, not an error: for n_tasks_dyna >= 1,      *)
(* n_actions_dyna >= 1, N >= 1 train tasks and A >= 1 actions, the loss    *)
(* samples exactly min(n_tasks_dyna, N) pairwise distinct task indices     *)
(* and, per sampled task, exactly min(n_actions_dyna, A) pairwise distinct *)
(* random actions, and does not fail when the requested count exceeds the  *)
(* available count.                                                        *)
(***************************************************************************)
C16_Capped ==
  d_pc \notin {"idle", "ready"} =>
    /\ d_pc = "sampled"
    /\ Len(d_sampled_tasks) = DynaM
    /\ \A m \in 1..DynaM : d_sampled_tasks[m] \in 1..NumTrainTasks
    /\ PairwiseDistinct(d_sampled_tasks, DynaM)
    /\ Len(d_sampled_actions) = DynaM
    /\ \A m \in 1..DynaM :
         /\ Len(d_sampled_actions[m]) >= DynaK
         /\ \A i \in 1..DynaK : d_sampled_actions[m][i] \in 1..NumDynaActions
         /\ PairwiseDistinct(d_sampled_actions[m], DynaK)

C16_Witness ==
  /\ d_pc = "sampled"
  /\ d_self.n_tasks_dyna > NumTrainTasks /\ d_self.n_actions_dyna > NumDynaActions
  /\ NumTrainTasks = 2 /\ NumDynaActions = 2
  /\ d_sampled_tasks = <<2, 1>>
  /\ SubSeq(d_sampled_actions[1], 1, 2) = <<2, 1>>

(***************************************************************************)
(* C17: for each sampled Dyna task the candidate action list has exactly   *)
(* K+1 entries, K = min(n_actions_dyna, A): the K sampled actions followed *)
(* by the greedy action argmax(q_values) of that task; the greedy action   *)
(* is in every list, and twice whenever it was also drawn at random, which *)
(* is always so when K = A.                                                *)
(***************************************************************************)
\* a is a greedy action of q: no action has a larger value
C17_Greedy(q, a) == \A a2 \in 1..Len(q) : ~RLt(q[a], q[a2])

C17_Occurrences(x, a) == Cardinality({i \in 1..Len(x) : x[i] = a})

C17_GreedyAppended ==
  d_pc = "sampled" =>
    \A m \in 1..Len(d_sampled_actions) :
      LET x == d_sampled_actions[m]
          q == d_q_values[d_sampled_tasks[m]]
          drawn == {x[i] : i \in 1..DynaK}
      IN  /\ Len(x) = DynaK + 1
          /\ C17_Greedy(q, x[DynaK + 1])
          /\ PairwiseDistinct(x, DynaK)
          /\ x[DynaK + 1] \in drawn <=> C17_Occurrences(x, x[DynaK + 1]) = 2
          /\ x[DynaK + 1] \notin drawn => C17_Occurrences(x, x[DynaK + 1]) = 1
          /\ DynaK = NumDynaActions => C17_Occurrences(x, x[DynaK + 1]) = 2

C17_Witness ==
  /\ d_pc = "sampled" /\ NumDynaActions = 2 /\ DynaK = 1
  /\ \E m \in 1..Len(d_sampled_actions) :
       /\ d_sampled_actions[m] = <<1, 2>>
       /\ RLt(d_q_values[d_sampled_tasks[m]][1], d_q_values[d_sampled_tasks[m]][2])

(***************************************************************************)
(* C18: in the model loss the SF loss of one start timestep is the average *)
(* over its simulation window taken with the per-step validity mask        *)
(* (sf_mask rolled into windows): a simulation step whose mask entry is 0  *)
(* contributes nothing, so changing the SF target or the predicted SF at a *)
(* masked simulation step leaves that start timestep's SF loss unchanged.  *)
(***************************************************************************)
C18_Original ==
  (c_pc = "done" /\ c_alt.called /\ c_args.sf_mask_[c_alt.pert.i] = 0) =>
    c_alt.sf_loss = c_out

(***************************************************************************)
(* C19: the on-task loss is sensitive to every valid entry of online_sf:   *)
(* for a step t whose episode-mask entry is 1, any action a and any        *)
(* cumulant c, perturbing the single entry online_sf[t, a, c] changes the  *)
(* on-task loss returned for that batch element.                           *)
(***************************************************************************)
C19_Case == e_pc = "returned" /\ e_alt.called /\ e_alt.pert.kind = "sf"

\* the entry perturbed is one the TD error reads: the SF of the action taken
\* at a step before the last, not zeroed by the episode mask
C19_Read ==
  /\ e_alt.pert.t < DataT
  /\ e_alt.pert.a = e_data.action[e_alt.pert.t][e_alt.pert.b]
  /\ EpisodeMask[e_alt.pert.t][e_alt.pert.b] = 1

C19_Original ==
  (C19_Case /\ EpisodeMask[e_alt.pert.t][e_alt.pert.b] = 1) =>
    LossOf(e_alt.loss, e_alt.pert.b) # LossOf(e_out.loss, e_alt.pert.b)

\* C19 as amended: only the SF of the action taken at a valid step before the
\* last enters the on-task loss.  Raising such an entry by one lowers the TD
\* error returned for that step (the mean over the C cumulants) by
\* task_coeff / C and changes nothing at any other step or batch element;
\* raising any other entry of online_sf changes neither the TD error nor the
\* loss.
C19_Amended ==
  C19_Case =>
    IF C19_Read
      THEN \A t \in 1..(DataT - 1) : \A b \in 1..DataB :
             e_alt.td_error.val[t][b] =
               IF t = e_alt.pert.t /\ b = e_alt.pert.b
                 THEN RSub(e_out.td_error.val[t][b],
                           Rat(e_self.task_coeff, Len(e_data.sf[1][1][1])))
                 ELSE e_out.td_error.val[t][b]
      ELSE e_alt.td_error = e_out.td_error /\ e_alt.loss = e_out.loss

C19_Witness ==
  /\ C19_Case /\ C19_Read
  /\ LossOf(e_alt.loss, e_alt.pert.b) # LossOf(e_out.loss, e_alt.pert.b)
  /\ e_alt.td_error # e_out.td_error

(***************************************************************************)
(* C20: over any sequence of write calls on a HasKeyFilter, a values       *)
(* mapping is forwarded to the wrapped logger if and only if it contains   *)
(* the configured key, and a mapping without the key is never forwarded.   *)
(***************************************************************************)
C20_Original ==
  \A i \in 1..Len(h_calls) :
    h_calls[i].forwarded <=> (h_self._key \in DOMAIN h_calls[i].values)

\* what write does do: a mapping is forwarded exactly when it holds a true
\* value under the key, and the wrapped logger receives it without the key
C20_ForwardsTrueValues ==
  /\ \A i \in 1..Len(h_calls) :
       h_calls[i].forwarded <=>
         /\ h_self._key \in DOMAIN h_calls[i].values
         /\ truthy(h_calls[i].values[h_self._key])
  /\ \A j \in 1..Len(h_to) : h_self._key \notin DOMAIN h_to[j]

\* a mapping that holds the key with the value 0 has been written and dropped
C20_Dropped ==
  \E i \in 1..Len(h_calls) :
    /\ h_self._key \in DOMAIN h_calls[i].values
    /\ h_calls[i].values[h_self._key] = PyInt(0)
    /\ ~h_calls[i].forwarded

(***************************************************************************)
(* C21: make_logger ignores its steps_key argument: for every value of     *)
(* steps_key, a logger built with use_wandb=True logs a written values     *)
(* mapping to wandb whether or not the mapping contains steps_key;         *)
(* WandbLogger.write never drops a write because a steps key is missing.   *)
(***************************************************************************)
C21_Original ==
  "wandb" \in g_self.loggers =>
    /\ \A i \in 1..Len(g_calls) : g_calls[i].logged
    /\ Len(g_wandb) = Len(g_calls)

(***************************************************************************)
(* C22: get_actor_core raises ValueError unless exactly one of             *)
(* config.num_epsilons and config.evaluation_epsilon is specified: it      *)
(* fails when both are specified (num_epsilons non-zero and                *)
(* evaluation_epsilon not None, evaluation_epsilon = 0.0 included) and     *)
(* when neither is, and succeeds in the two remaining cases.               *)
(***************************************************************************)
C22_Original ==
  a_pc # "ready" =>
    LET specified_num == a_config.num_epsilons # PyInt(0)
        specified_eval == a_config.evaluation_epsilon # PyNone
    IN  /\ (specified_num = specified_eval) =>
             (a_pc = "raised" /\ a_exc = ValueError)
        /\ (specified_num # specified_eval) => a_pc # "raised"

(***************************************************************************)
(* C30: actor-state threading in get_actor_core: after init,               *)
(* recurrent_state and prev_recurrent_state are both the initial recurrent *)
(* state; after any sequence of select_action calls the returned state's   *)
(* prev_recurrent_state is the recurrent_state passed into the most recent *)
(* call, epsilon is unchanged from init, and get_extras returns that       *)
(* prev_recurrent_state as 'core_state'.                                   *)
(***************************************************************************)
\* the recurrent state the last action was computed from
C30_ComputedFrom ==
  IF a_calls = <<>> THEN a_first.initial_core_state
  ELSE a_calls[Len(a_calls)].passed.recurrent_state

C30_StateThreading ==
  a_pc = "running" =>
    /\ a_first.state.recurrent_state = a_first.initial_core_state
    /\ a_first.state.prev_recurrent_state = a_first.initial_core_state
    /\ a_calls = <<>> => a_state = a_first.state
    /\ a_state.prev_recurrent_state = C30_ComputedFrom
    /\ a_calls # <<>> => a_state.recurrent_state = a_calls[Len(a_calls)].applied
    /\ \A i \in 1..Len(a_calls) :
         a_calls[i].passed.recurrent_state =
           IF i = 1 THEN a_first.initial_core_state ELSE a_calls[i - 1].applied
    /\ a_state.epsilon = a_first.state.epsilon
    /\ (a_extras.called /\ a_extras.at = Len(a_calls)) =>
         /\ DOMAIN a_extras.extras = {"core_state"}
         /\ a_extras.extras.core_state = C30_ComputedFrom

C30_Witness ==
  /\ a_pc = "running" /\ Len(a_calls) = 2
  /\ a_first.initial_core_state = "h0"
  /\ a_calls[1].applied = "h1" /\ a_calls[2].applied = "h2"
  /\ a_state.prev_recurrent_state = "h1" /\ a_state.recurrent_state = "h2"
  /\ a_extras.called /\ a_extras.at = 2 /\ a_extras.extras.core_state = "h1"
  /\ a_state.epsilon = [type |-> "logspace", value |-> 2]

(***************************************************************************)
(* C23: UsfaLossFn.error accepts exactly two cumulant-length conventions   *)
(* and aligns both the same way: when cumulants has as many rows as        *)
(* online_sf (data_T) or exactly one fewer, the slice passed to the TD     *)
(* computation has exactly data_T - 1 rows, as many as online_sf[:-1],     *)
(* actions[:-1] and discounts[:-1]; with more rows than data_T it raises   *)
(* RuntimeError, with fewer than data_T - 1 rows NotImplementedError.      *)
(***************************************************************************)
C23_CumulantAlignment ==
  u_pc \in {"done", "raised"} =>
    LET data_T == Len(u_data.online_sf)
        cumulants_T == Len(u_cumulants)
    IN  /\ cumulants_T \in {data_T, data_T - 1} =>
             /\ u_pc = "done"
             /\ Len(u_args.cumulants) = data_T - 1
             /\ u_args.cumulants = SubSeq(u_cumulants, 1, data_T - 1)
             /\ Len(u_args.online_sf) = data_T - 1
             /\ Len(u_args.online_actions) = data_T - 1
             /\ Len(u_args.discounts) = data_T - 1
             /\ u_args.online_sf = Rows(data_T - 1)
        /\ cumulants_T > data_T =>
             u_pc = "raised" /\ u_exc.type = "RuntimeError"
        /\ cumulants_T < data_T - 1 =>
             u_pc = "raised" /\ u_exc.type = "NotImplementedError"

C23_Witness ==
  /\ u_pc = "done" /\ Len(u_data.online_sf) = 3
  /\ u_cumulants = <<1, 0, 1>>
  /\ u_args.cumulants = <<1, 0>>
  /\ u_args.online_sf = <<1, 2>>

(***************************************************************************)
(* C24: all three sub-losses of MtrlDynaUsfaLossFn bootstrap with the same *)
(* discount sequence: the discount used in the Dyna one-step TD target at  *)
(* step t is data.discount[t] times the agent's discount factor            *)
(* (self.discount), exactly as in the on-task loss and in the model loss's *)
(* SF targets.                                                             *)
(***************************************************************************)
C24_Original ==
  b_pc = "done" =>
    \A t \in 1..Len(b_discount) :
      /\ b_out.dyna[t] = RMul(RInt(b_discount[t]), b_self.discount)
      /\ b_out.dyna[t] = b_out.ontask[t]
      /\ b_out.dyna[t] = b_out.model[t]
      /\ b_out.dyna_td[t] =
           one_step_sf_td(b_steps[t].sf, b_steps[t].action,
                          b_steps[t].next_state_features, b_steps[t].next_sf,
                          RMul(RInt(b_discount[t]), b_self.discount),
                          b_steps[t].q_values)

(***************************************************************************)
(* C25: within one call of MtrlDynaUsfaLossFn.error every random draw uses *)
(* its own PRNG key obtained by splitting the supplied key: no key is      *)
(* consumed by two different sampling sites, the T*B keys given to the     *)
(* Dyna loss are pairwise distinct per (timestep, batch element), and      *)
(* distinct batch elements of the model loss (zero-feature mask sampling,  *)
(* model unroll, SF computation) never receive the same key.               *)
(***************************************************************************)
C25_Original ==
  p_pc = "done" =>
    /\ \A d1, d2 \in p_out.draws : d1.key = d2.key => d1.site = d2.site
    /\ \A t1, t2 \in 1..Len(p_out.loss_keys) : \A b1, b2 \in 1..p_shape.B :
         p_out.loss_keys[t1][b1] = p_out.loss_keys[t2][b2] => (t1 = t2 /\ b1 = b2)
    /\ \A b1, b2 \in 1..Len(p_out.model_keys) :
         p_out.model_keys[b1] = p_out.model_keys[b2] => b1 = b2

(***************************************************************************)
(* QObserver curriculum claims                                             *)
(***************************************************************************)
\* the lower bound at every level lies strictly below every upper threshold
LowerBoundBelowThresholds(cfg) ==
  \A level \in CurriculumLevels(cfg.max_blocks) :
    \A threshold \in UpperThresholds(cfg) :
      LowerBoundAt(cfg, level) < threshold

\* a pass through the curriculum logic that wrote the configuration back
Updated == q_last # <<>> /\ q_last[1].case # "case not found"

\* C26: with every lower bound strictly below every upper threshold, a level
\* that started as 0 or in 2..max_blocks is still 0 or in 2..max_blocks
\* after every update; one update moves it by at most one level, or from
\* max_blocks to 0, or from 0 to max_blocks; a level of None stays None.
C26_LevelInRange ==
  (q_cfg # <<>> /\ LowerBoundBelowThresholds(q_cfg)) =>
    /\ \/ q_cfg.curriculum = PyNone
       \/ /\ q_cfg.curriculum.type = "int"
          /\ q_cfg.curriculum.value \in CurriculumLevels(q_cfg.max_blocks)
    /\ Updated =>
         LET before == q_last[1].before.cur_curriculum
             after == q_cfg.curriculum
         IN  IF before = PyNone THEN after = PyNone
             ELSE /\ after # PyNone
                  /\ \/ after.value - before.value \in {-1, 0, 1}
                     \/ before.value = q_cfg.max_blocks /\ after.value = 0
                     \/ before.value = 0 /\ after.value = q_cfg.max_blocks

\* two updates have run and the second started final stabilizing from
\* max_blocks >= 3
C26_Witness ==
  /\ Updated
  /\ LowerBoundBelowThresholds(q_cfg)
  /\ q_adjusts >= 2
  /\ q_cfg.max_blocks >= 3
  /\ q_last[1].before.cur_curriculum = PyInt(q_cfg.max_blocks)
  /\ q_cfg.curriculum = PyInt(0)

\* C27: after every update of a non-None curriculum at most one pressure
\* counter is non-zero and each is below its threshold; the level is raised
\* (one level up, or from max_blocks to final stabilizing) only in the
\* update in which up_pressure reaches up_pressure_threshold and lowered
\* (one level down, or from final stabilizing back to max_blocks) only in
\* the update in which down_pressure reaches down_pressure_threshold; a
\* reward strictly between the lower bound and the upper threshold resets
\* both counters.
C27_PressureCounters ==
  (Updated /\ q_last[1].before.cur_curriculum # PyNone) =>
    LET u == q_last[1]
        before == u.before
        level_before == before.cur_curriculum.value
        level_after == q_cfg.curriculum.value
        raised ==
          \/ level_after = level_before + 1
          \/ level_before = q_cfg.max_blocks /\ level_after = 0
        lowered ==
          \/ level_after = level_before - 1
          \/ level_before = 0 /\ level_after = q_cfg.max_blocks
    IN  /\ q_cfg.up_pressure = 0 \/ q_cfg.down_pressure = 0
        /\ q_cfg.up_pressure >= 0 /\ q_cfg.down_pressure >= 0
        /\ q_cfg.up_pressure < q_cfg.up_pressure_threshold
        /\ q_cfg.down_pressure < q_cfg.down_pressure_threshold
        /\ level_after # level_before => raised \/ lowered
        /\ raised =>
             /\ u.episode_reward > before.episode_reward_threshold
             /\ before.up_pressure + 1 = q_cfg.up_pressure_threshold
        /\ lowered =>
             /\ u.episode_reward < u.episode_reward_lb
             /\ before.down_pressure + 1 = q_cfg.down_pressure_threshold
        /\ (u.episode_reward_lb < u.episode_reward
             /\ u.episode_reward < before.episode_reward_threshold) =>
             q_cfg.up_pressure = 0 /\ q_cfg.down_pressure = 0

\* down pressure had built up and an update with a reward above the upper
\* threshold replaced it by up pressure
C27_Witness ==
  /\ Updated
  /\ q_last[1].before.cur_curriculum # PyNone
  /\ q_last[1].before.down_pressure > 0
  /\ q_last[1].case = "curriculum increased"
  /\ q_cfg.up_pressure > 0

\* C28: at a level 0 or in 2..max_blocks, a reward different from the lower
\* bound and from the upper threshold takes a branch and the update
\* completes; ValueError is raised only for a reward equal to the lower
\* bound or to the upper threshold.
C28_DecisionTotal ==
  (/\ q_last # <<>>
   /\ q_last[1].before.cur_curriculum # PyNone
   /\ q_last[1].before.cur_curriculum.value
        \in CurriculumLevels(q_cfg.max_blocks)) =>
    LET u == q_last[1]
        boundary ==
          \/ u.episode_reward = u.episode_reward_lb
          \/ u.episode_reward = u.before.episode_reward_threshold
    IN  /\ ~boundary => u.case # "case not found" /\ q_exc = NoException
        /\ (u.case = "case not found" \/ q_exc = ValueError) => boundary

\* at the highest level a reward above the threshold was handled
C28_Witness ==
  /\ Updated
  /\ q_exc = NoException
  /\ q_last[1].before.cur_curriculum = PyInt(q_cfg.max_blocks)
  /\ q_last[1].episode_reward > q_last[1].before.episode_reward_threshold
  /\ q_last[1].episode_reward # q_last[1].episode_reward_lb
  /\ q_last[1].case = "start final stabalizing"

\* the curriculum state kept in mental_blocks_cfg
CurriculumState(cfg) == curriculum_locals(cfg)

\* C29: without a wandb run an evaluator passes through the curriculum
\* logic at most once, in the get_metrics that turned logging off and made
\* the period infinite, and no later step changes curriculum, up_pressure,
\* down_pressure or episode_reward_threshold; a non-evaluator never changes
\* them.
C29_AtMostOnce ==
  [][/\ (q_self # <<>> /\ ~q_run) =>
          /\ q_adjusts' <= 1
          /\ q_last' # <<>> =>
               /\ ~q_self'.logging /\ q_self'.period = np_inf
               /\ q_self'.idx >= q_last'[1].idx
          /\ ~q_self.logging =>
               /\ q_last' = q_last
               /\ CurriculumState(q_cfg') = CurriculumState(q_cfg)
     /\ (q_self # <<>> /\ ~q_self.evaluator) =>
          /\ q_last' = <<>>
          /\ CurriculumState(q_cfg') = CurriculumState(q_cfg)]_vars

\* without a wandb run the evaluator changed the level once and episodes
\* went on after that
C29_Witness ==
  /\ q_self # <<>> /\ ~q_run /\ q_self.evaluator
  /\ Updated
  /\ q_adjusts = 1
  /\ q_cfg.curriculum # q_last[1].before.cur_curriculum
  /\ q_self.idx > q_last[1].idx

====
